---- MODULE Spec2Model ----
(***************************************************************************)
(* Task queue and scheduler of mediago-core (internal/core/queue.go), with *)
(* the driver goroutine of every admitted task, the dispatcher's Download  *)
(* call and the runner's Run call it blocks on.                            *)
(*                                                                         *)
(* Every Enqueue call is numbered 1, 2, ... in the order the calls take    *)
(* the scheduler mutex.  The number n of a call names the DownloadParams   *)
(* value it passed, the TaskInfo record it allocated, and, once the task   *)
(* is admitted, the driver goroutine execute(p, ctx), its context and the  *)
(* cancel handle of that context.                                          *)
(*                                                                         *)
(* The six lifecycle hooks are taken as registered; trace[n] records each  *)
(* hook invocation made on behalf of driver n, in order.                   *)
(***************************************************************************)
EXTENDS Integers, Sequences, FiniteSets, TLC

\* ---- bounds of the model ----
MaxEnqueues == 2      \* Enqueue calls of an execution whose task IDs may repeat
MaxFresh == 3         \* Enqueue calls of an execution whose task IDs are all different
MaxRuns == 2          \* Enqueue calls of an execution that follows the runner line by line
MaxCap == 2           \* largest value given to maxRunner
MaxLines == 1         \* lines one child process prints
MaxStops == 2         \* Stop calls counted for one run
TickMs == 50          \* the clock's step between two observed instants, in ms
MaxTime == 200        \* the clock stops advancing here, in ms
MaxThrLines == 2      \* progress lines one reader goroutine takes from its stream
S3TickMs == 10        \* the clock's step while the S3 stream is fed, in ms
S3WindowMs == 50      \* the S3 stream is fed within this time, in ms
MaxInput == 4         \* bytes of child output given to a scanner
MaxWords == 3         \* pieces a URL is put together from
MaxPctLines == 2
MaxSse == 2
MaxLineWords == 2
MaxOnLines == 2
MaxRestCap == 3
MaxChans == 2

Max(a, b) == IF a > b THEN a ELSE b

\* one task ID for every Enqueue call of the longest execution
IDOrder == <<"A", "B", "C">>
TaskIDs == {IDOrder[i] : i \in 1..Len(IDOrder)}
Runs == 1..Max(MaxEnqueues, Max(MaxFresh, MaxRuns))
PercentValues == {50}
Platforms == {"unix", "windows"}

\* ---- types.go ----
StatusPending == "pending"
StatusDownloading == "downloading"
StatusSuccess == "success"
StatusFailed == "failed"
StatusStopped == "stopped"

\* ---- errors ----
NoError == "nil"
ErrTaskNotFound == "task not found"
ErrUnsupportedType == "unsupported download type"
ErrBinNotFound == "binary not found for type"
ErrCanceled == "context canceled"
ErrSpawn == "exec: start failed"
ErrExit == "exit status 1"
ErrKilled == "signal: killed"
ErrExitCode == "process exited with code 1"
ErrRegexp == "error parsing regexp"
ErrJSON == "invalid character"

VARIABLES
  goos,       \* the platform the binary was built for
  maxRunner,  \* q.maxRunner
  queue,      \* q.queue: sequence of DownloadParams [ID, n]
  active,     \* q.active: TaskID -> cancel handle (the run whose ctx it cancels)
  tasks,      \* q.tasks: TaskID -> TaskInfo record
  nEnq,       \* number of Enqueue calls made so far
  drv,        \* per run: the driver goroutine, its Download/Run call and child
  cancelled,  \* runs whose context has been cancelled
  trace,      \* per run: the hook invocations made by its driver and reader
  stopCall,   \* a Stop call between its lookup and its cancel(): the handle, or 0
  setCall,    \* a SetMaxRunner call between its assignment and its tryRun()
  ret,        \* what the step just taken returned to the caller of Enqueue or Stop
  now,        \* time.Now(), in milliseconds
  records,    \* progressTracker.records: the throttle record of each task id
  st,         \* per task id: the parseState of its Download call
  reader,     \* per task id and stream: the reader goroutine inside onLine
  events,     \* per task id: the ProgressEvents of Type progress given to OnProgress
  schemas,    \* DownloaderSvc.schemas, and whether the server has loaded them
  binMap,     \* DownloaderSvc.binMap: download type -> path of the binary
  scan,       \* the bufio.Scanner of a runner's reader and the lines it called back
  call        \* a call of a function of the dispatcher: its arguments and result

\* the DownloaderSvc's registry, fixed once the server has loaded it
registry == <<schemas, binMap>>

\* the DownloaderSvc's state, untouched by the scheduler's steps
\* the state of the components exercised on their own
units == <<scan, call>>

dispatch == <<now, records, st, reader, events, registry, units>>

vars == <<goos, maxRunner, queue, active, tasks, nEnq, drv, cancelled, trace,
          stopCall, setCall, ret, dispatch>>

\* ---- map helpers (Go map assignment and delete) ----
Put(f, k, v) == [x \in (DOMAIN f) \cup {k} |-> IF x = k THEN v ELSE f[x]]

Del(f, k) == [x \in (DOMAIN f) \ {k} |-> f[x]]

Len0(f) == Cardinality(DOMAIN f)

EmptyMap == [x \in {} |-> 0]

\* qlen is the queueLength that Enqueue logged for the run ("Task enqueued"),
\* 0 for a run that Enqueue started at once ("Task started immediately")
NoDriver ==
  [pc |-> "idle", ID |-> "", err |-> NoError, path |-> "", child |-> "none",
   left |-> 0, rd |-> FALSE, qlen |-> 0, mu |-> FALSE, stops |-> 0, pcts |-> <<>>]

\* go q.execute(p, ctx): the driver goroutine of the run, not yet scheduled
Spawned(d, id) == [d EXCEPT !.pc = "lock", !.ID = id]

NewTaskInfo(id, n) ==
  [n |-> n, ID |-> id, Status |-> StatusPending, Percent |-> 0, Error |-> ""]

NoRet == [op |-> "", val |-> ""]

\* ---- the progress dispatcher at rest ----
\* the two pipes of the exec runner; the PTY runner reads one combined stream
Streams == {"stdout", "stderr"}

\* parseState as Download creates it: st := &parseState{}
NoParse == [ready |-> FALSE, percent |-> 0, speed |-> ""]

\* a stream nobody reads: pc, lines read so far, the last throttle decision
NoReader == [pc |-> "none", k |-> 0, ok |-> FALSE]

\* a scanner that has not been created
NoScan == [path |-> "", in |-> <<>>, rest |-> <<>>, buf |-> <<>>, eof |-> FALSE, out |-> <<>>]

\* no call made
NoCall == [fn |-> "", in |-> <<>>, out |-> <<>>]

DispatchIdle ==
  /\ scan = NoScan
  /\ call = NoCall
  /\ now = 0
  /\ records = EmptyMap
  /\ st = [id \in TaskIDs |-> NoParse]
  /\ reader = [id \in TaskIDs |-> [s \in Streams |-> NoReader]]
  /\ events = [id \in TaskIDs |-> <<>>]

\* ---- the registry: SchemaList, ConsoleReg, binMap ----
DownloadTypes == {"m3u8", "bilibili"}

\* regexp.Compile succeeds on the pattern
WellFormed(pattern) == pattern # "("

GoodReg ==
  [Percent |-> "([0-9.]+)%", Speed |-> "", Error |-> "", Start |-> "", IsLive |-> ""]

NewSchema(t, cr) == [Type |-> t, ConsoleReg |-> cr]

\* the registry of a server whose configuration is in order
Registered ==
  /\ schemas = [loaded |-> TRUE, Schemas |-> <<NewSchema("m3u8", GoodReg)>>]
  /\ binMap = [t \in {"m3u8"} |-> "/bin/dl"]

InitQueue ==
  /\ goos \in Platforms
  /\ maxRunner \in 1..MaxCap
  /\ queue = <<>>
  /\ active = EmptyMap
  /\ tasks = EmptyMap
  /\ nEnq = 0
  /\ drv = [n \in Runs |-> NoDriver]
  /\ cancelled = {}
  /\ trace = [n \in Runs |-> <<>>]
  /\ stopCall = [id |-> "", h |-> 0]
  /\ setCall = FALSE
  /\ ret = NoRet

Init == InitQueue /\ DispatchIdle /\ Registered

\* ---- TaskQueue.Enqueue ----
\* (mutant: the capacity test off by one)
AdmitsUpToCap(act, cap) == Len0(act) <= cap

Admits(act, cap) == Len0(act) < cap

\* (mutant: the new task is put in front of the waiting ones)
PushFront(qu, p) == <<p>> \o qu

\* q.queue = append(q.queue, p)
Push(qu, p) == Append(qu, p)

Enqueue(id) ==
  /\ LET n == nEnq + 1
         info == NewTaskInfo(id, n)
     IN /\ nEnq' = n
        /\ IF Admits(active, maxRunner)
           THEN /\ tasks' = Put(tasks, id, [info EXCEPT !.Status = StatusDownloading])
                /\ active' = Put(active, id, n)
                /\ drv' = [drv EXCEPT ![n] = Spawned(drv[n], id)]
                /\ queue' = queue
                /\ ret' = [op |-> "Enqueue", val |-> StatusDownloading]
           ELSE /\ tasks' = Put(tasks, id, info)
                /\ queue' = Push(queue, [ID |-> id, n |-> n])
                /\ active' = active
                /\ drv' = [drv EXCEPT ![n].qlen = Len(queue')]
                /\ ret' = [op |-> "Enqueue", val |-> StatusPending]
  /\ UNCHANGED <<dispatch, goos, maxRunner, cancelled, trace, stopCall, setCall>>

\* (mutant: tryRun keeps one slot free)
CanRunKeepsSlot(act, cap, qu) == Len0(act) < cap - 1 /\ Len(qu) > 0

\* (mutant: tryRun admits the head of the queue whatever the cap)
CanRunAnyCap(act, cap, qu) == Len(qu) > 0

\* ---- TaskQueue.tryRun: at most one admission per call ----
CanRun(act, cap, qu) == Len0(act) < cap /\ Len(qu) > 0

\* (mutant: tryRun starts the newest waiting task)
QueueLast(qu) == qu[Len(qu)]

\* the entry tryRun takes from the pending queue, and what it leaves
QueueHead(qu) == Head(qu)

\* (mutant: tryRun starts the head of the queue and leaves it in the queue)
QueueKept(qu) == qu

QueueRest(qu) == Tail(qu)

tryRun(d) ==
  IF CanRun(active, maxRunner, queue)
  THEN LET task == QueueHead(queue)
       IN /\ queue' = QueueRest(queue)
          /\ tasks' = [tasks EXCEPT ![task.ID].Status = StatusDownloading]
          /\ active' = Put(active, task.ID, task.n)
          /\ drv' = [d EXCEPT ![task.n] = Spawned(d[task.n], task.ID)]
  ELSE /\ drv' = d
       /\ UNCHANGED <<queue, tasks, active>>

\* ---- TaskQueue.SetMaxRunner: the assignment, then tryRun() ----
SetMaxRunnerAssign(n) ==
  /\ ~setCall
  /\ maxRunner' = n
  /\ setCall' = TRUE
  /\ UNCHANGED <<dispatch, goos, queue, active, tasks, nEnq, drv, cancelled, trace, stopCall>>
  /\ ret' = NoRet

SetMaxRunnerTryRun ==
  /\ setCall
  /\ tryRun(drv)
  /\ setCall' = FALSE
  /\ UNCHANGED <<dispatch, goos, maxRunner, nEnq, cancelled, trace, stopCall>>
  /\ ret' = NoRet

\* ---- TaskQueue.Stop: the lookup under the mutex, then cancel() ----
NoStop == [id |-> "", h |-> 0]

\* (mutant: Stop also accepts an id that is waiting in the pending queue)
StopFoundOrPending(act, id) ==
  id \in DOMAIN act \/ \E i \in 1..Len(queue) : queue[i].ID = id

StopFound(act, id) == id \in DOMAIN act

\* cancel, ok := q.active[id]: the zero value when the key is missing
Handle(act, id) == IF id \in DOMAIN act THEN act[id] ELSE 0

StopLookup(id) ==
  /\ stopCall = NoStop
  /\ IF StopFound(active, id)
     THEN /\ stopCall' = [id |-> id, h |-> Handle(active, id)]
          /\ ret' = NoRet
     ELSE /\ stopCall' = NoStop
          /\ ret' = [op |-> "Stop", val |-> ErrTaskNotFound]
  /\ UNCHANGED <<dispatch, goos, maxRunner, queue, active, tasks, nEnq, drv, cancelled, trace, setCall>>

\* cancel() marks the context done; the context of a driver that has returned
\* is referenced by nobody and is not kept
Cancel(set, h) == IF h \notin Runs \/ drv[h].pc = "done" THEN set ELSE set \cup {h}

\* (mutant: Stop marks the record stopped itself, next to invoking cancel)
StopCancelWrites ==
  /\ stopCall # NoStop
  /\ cancelled' = Cancel(cancelled, stopCall.h)
  /\ tasks' = IF stopCall.id \in DOMAIN tasks
              THEN [tasks EXCEPT ![stopCall.id].Status = StatusStopped]
              ELSE tasks
  /\ stopCall' = NoStop
  /\ ret' = [op |-> "Stop", val |-> NoError]
  /\ UNCHANGED <<dispatch, goos, maxRunner, queue, active, nEnq, drv, trace, setCall>>

StopCancel ==
  /\ stopCall # NoStop
  /\ cancelled' = Cancel(cancelled, stopCall.h)
  /\ stopCall' = NoStop
  /\ ret' = [op |-> "Stop", val |-> NoError]
  /\ UNCHANGED <<dispatch, goos, maxRunner, queue, active, tasks, nEnq, drv, trace, setCall>>

\* ---- TaskQueue.execute: the driver goroutine of run n ----
Fire(n, cb) == trace' = [trace EXCEPT ![n] = Append(@, cb)]

\* lines 142-146: mark the record found under p.ID as downloading
ExecLock(n) ==
  /\ drv[n].pc = "lock"
  /\ tasks' = IF drv[n].ID \in DOMAIN tasks
              THEN [tasks EXCEPT ![drv[n].ID].Status = StatusDownloading]
              ELSE tasks
  /\ drv' = [drv EXCEPT ![n].pc = "start"]
  /\ UNCHANGED <<dispatch, goos, maxRunner, queue, active, nEnq, cancelled, trace, stopCall, setCall>>
  /\ ret' = NoRet

\* lines 149-151: q.onStart(p.ID)
ExecStart(n) ==
  /\ drv[n].pc = "start"
  /\ Fire(n, "OnStart")
  /\ drv' = [drv EXCEPT ![n].pc = "download"]
  /\ UNCHANGED <<dispatch, goos, maxRunner, queue, active, tasks, nEnq, cancelled, stopCall, setCall>>
  /\ ret' = NoRet

\* ---- DownloaderSvc.Download up to runner.Run ----
\* the schema or binary lookup fails: Download returns before any child exists
DownloadReject(n, e) ==
  /\ drv[n].pc = "download"
  /\ e \in {ErrUnsupportedType, ErrBinNotFound, ErrRegexp}
  /\ drv' = [drv EXCEPT ![n].pc = "remove", ![n].err = e]
  /\ UNCHANGED <<dispatch, goos, maxRunner, queue, active, tasks, nEnq, cancelled, trace, stopCall, setCall>>
  /\ ret' = NoRet

\* exec.Cmd.Start on a command bound to ctx: fails at once when ctx is done
StartFails(n) == n \in cancelled

\* Run reaches a started child: on a pseudo-terminal, or on pipes after the
\* pseudo-terminal could not be had.  lines is what the child will print.
RunStart(n, path, lines) ==
  /\ drv[n].pc = "download"
  /\ path \in {"pty", "pipe"}
  /\ \/ path = "pipe" /\ ~StartFails(n)
     \/ path = "pty" /\ (goos = "windows" \/ ~StartFails(n))
  /\ drv' = [drv EXCEPT ![n].pc = "run", ![n].path = path, ![n].child = "running",
                        ![n].left = lines, ![n].rd = TRUE]
  /\ UNCHANGED <<dispatch, goos, maxRunner, queue, active, tasks, nEnq, cancelled, trace, stopCall, setCall>>
  /\ ret' = NoRet

\* no child could be started on either path: Run returns the start error
RunStartFails(n) ==
  /\ drv[n].pc = "download"
  /\ drv' = [drv EXCEPT ![n].pc = "remove",
                        ![n].err = IF StartFails(n) THEN ErrCanceled ELSE ErrSpawn]
  /\ UNCHANGED <<dispatch, goos, maxRunner, queue, active, tasks, nEnq, cancelled, trace, stopCall, setCall>>
  /\ ret' = NoRet

\* ---- the reader goroutine of Run: readPTYOutput / readPipe ----
\* Run has closed the pseudo-terminal (or ConPTY) of run n
Closed(n) ==
  drv[n].path = "pty" /\ drv[n].pc \in {"drain", "remove", "status", "cb", "tryRun", "done"}

\* what one line makes onLine send besides the message: no progress event, or
\* one carrying Percent
LineEvents ==
  {[progress |-> FALSE, Percent |-> 0]} \cup
  {[progress |-> TRUE, Percent |-> v] : v \in PercentValues}

\* one line reaches onLine: OnMessage, then OnProgress when the parser and the
\* throttle let an event through
ReadLine(n, ev) ==
  /\ drv[n].rd
  /\ drv[n].left > 0
  /\ drv' = [drv EXCEPT ![n].left = @ - 1,
                        ![n].pcts = IF ev.progress THEN Append(@, ev.Percent) ELSE @]
  /\ IF ~ev.progress
     THEN /\ Fire(n, "OnMessage")
          /\ tasks' = tasks
     ELSE /\ trace' = [trace EXCEPT ![n] = @ \o <<"OnMessage", "OnProgress">>]
          /\ tasks' = IF drv[n].ID \in DOMAIN tasks
                      THEN [tasks EXCEPT ![drv[n].ID].Percent = ev.Percent]
                      ELSE tasks
  /\ UNCHANGED <<dispatch, goos, maxRunner, queue, active, nEnq, cancelled, stopCall, setCall>>
  /\ ret' = NoRet

\* the scanner ends: end of the child's output, or a read error after the close
ReaderEnd(n) ==
  /\ drv[n].rd
  /\ Closed(n) \/ (drv[n].child # "running" /\ drv[n].left = 0)
  /\ drv' = [drv EXCEPT ![n].rd = FALSE, ![n].left = 0]
  /\ UNCHANGED <<dispatch, goos, maxRunner, queue, active, tasks, nEnq, cancelled, trace, stopCall, setCall>>
  /\ ret' = NoRet

\* ---- the child process ----
ChildExit(n, code) ==
  /\ drv[n].pc = "run"
  /\ drv[n].child = "running"
  /\ code \in {"exit0", "exit1"}
  /\ drv' = [drv EXCEPT ![n].child = code]
  /\ UNCHANGED <<dispatch, goos, maxRunner, queue, active, tasks, nEnq, cancelled, trace, stopCall, setCall>>
  /\ ret' = NoRet

\* exec.CommandContext kills the child once ctx is done (ConPTY children are
\* not bound to ctx)
ChildKill(n) ==
  /\ drv[n].pc = "run"
  /\ drv[n].child = "running"
  /\ n \in cancelled
  /\ drv[n].path = "pipe" \/ goos = "unix"
  /\ drv' = [drv EXCEPT ![n].child = "killed"]
  /\ UNCHANGED <<dispatch, goos, maxRunner, queue, active, tasks, nEnq, cancelled, trace, stopCall, setCall>>
  /\ ret' = NoRet

\* waiting for the child never reports a failure
WaitErrNil(child, os, path) == NoError

\* what waiting for the child returns
WaitErr(child, os, path) ==
  CASE child = "exit0" -> NoError
    [] child = "killed" -> ErrKilled
    [] OTHER -> IF os = "windows" /\ path = "pty" THEN ErrExitCode ELSE ErrExit

\* ---- runWithPTY: the select between ctx.Done() and the child's exit ----
\* after the ctx.Done() case: unix returns at once, windows drains the reader
AfterCtxDone(os) == IF os = "unix" THEN "remove" ELSE "drain"

RunCtxDone(n) ==
  /\ drv[n].pc = "run"
  /\ drv[n].path = "pty"
  /\ n \in cancelled
  /\ drv' = [drv EXCEPT ![n].pc = AfterCtxDone(goos), ![n].err = ErrCanceled]
  /\ UNCHANGED <<dispatch, goos, maxRunner, queue, active, tasks, nEnq, cancelled, trace, stopCall, setCall>>
  /\ ret' = NoRet

RunCmdDone(n) ==
  /\ drv[n].pc = "run"
  /\ drv[n].path = "pty"
  /\ drv[n].child # "running"
  /\ drv' = [drv EXCEPT ![n].pc = "drain",
                        ![n].err = WaitErr(drv[n].child, goos, "pty")]
  /\ UNCHANGED <<dispatch, goos, maxRunner, queue, active, tasks, nEnq, cancelled, trace, stopCall, setCall>>
  /\ ret' = NoRet

\* <-done / <-readDone, then Run and Download return
RunDrained(n) ==
  /\ drv[n].pc = "drain"
  /\ ~drv[n].rd
  /\ drv' = [drv EXCEPT ![n].pc = "remove"]
  /\ UNCHANGED <<dispatch, goos, maxRunner, queue, active, tasks, nEnq, cancelled, trace, stopCall, setCall>>
  /\ ret' = NoRet

\* ---- ExecRunner.Run: both readers done, then cmd.Wait() ----
PipeDone(n) ==
  /\ drv[n].pc = "run"
  /\ drv[n].path = "pipe"
  /\ ~drv[n].rd
  /\ drv[n].child # "running"
  /\ drv' = [drv EXCEPT ![n].pc = "remove",
                        ![n].err = WaitErr(drv[n].child, goos, "pipe")]
  /\ UNCHANGED <<dispatch, goos, maxRunner, queue, active, tasks, nEnq, cancelled, trace, stopCall, setCall>>
  /\ ret' = NoRet

\* ---- TaskQueue.execute after Download returned ----
\* lines 177-179
ExecRemove(n) ==
  /\ drv[n].pc = "remove"
  /\ active' = Del(active, drv[n].ID)
  /\ drv' = [drv EXCEPT ![n].pc = "status"]
  /\ UNCHANGED <<dispatch, goos, maxRunner, queue, tasks, nEnq, cancelled, trace, stopCall, setCall>>
  /\ ret' = NoRet

\* the switch of lines 182-220
Classify(err) ==
  IF err = NoError THEN StatusSuccess
  ELSE IF err = ErrCanceled THEN StatusStopped
  ELSE StatusFailed

\* (mutant: the success case leaves Percent as the last progress event set it)
OutcomeKeepsPercent(info, err) ==
  CASE Classify(err) = StatusSuccess -> [info EXCEPT !.Status = StatusSuccess]
    [] Classify(err) = StatusStopped -> [info EXCEPT !.Status = StatusStopped]
    [] OTHER -> [info EXCEPT !.Status = StatusFailed, !.Error = err]

Outcome(info, err) ==
  CASE Classify(err) = StatusSuccess ->
         [info EXCEPT !.Status = StatusSuccess, !.Percent = 100]
    [] Classify(err) = StatusStopped ->
         [info EXCEPT !.Status = StatusStopped]
    [] OTHER ->
         [info EXCEPT !.Status = StatusFailed, !.Error = err]

\* (mutant: the cancelled case falls through into the default case)
TerminalHooksFallthrough(err) ==
  CASE Classify(err) = StatusSuccess -> <<"OnSuccess">>
    [] Classify(err) = StatusStopped -> <<"OnStopped", "OnFailed">>
    [] OTHER -> <<"OnFailed">>

\* the hooks the switch invokes, in order
TerminalHooks(err) ==
  CASE Classify(err) = StatusSuccess -> <<"OnSuccess">>
    [] Classify(err) = StatusStopped -> <<"OnStopped">>
    [] OTHER -> <<"OnFailed">>

ExecStatus(n) ==
  /\ drv[n].pc = "status"
  /\ tasks' = IF drv[n].ID \in DOMAIN tasks
              THEN [tasks EXCEPT ![drv[n].ID] = Outcome(@, drv[n].err)]
              ELSE tasks
  /\ drv' = [drv EXCEPT ![n].pc = "cb"]
  /\ UNCHANGED <<dispatch, goos, maxRunner, queue, active, nEnq, cancelled, trace, stopCall, setCall>>
  /\ ret' = NoRet

ExecCallback(n) ==
  /\ drv[n].pc = "cb"
  /\ trace' = [trace EXCEPT ![n] = @ \o TerminalHooks(drv[n].err)]
  /\ drv' = [drv EXCEPT ![n].pc = "tryRun"]
  /\ UNCHANGED <<dispatch, goos, maxRunner, queue, active, tasks, nEnq, cancelled, stopCall, setCall>>
  /\ ret' = NoRet

\* the goroutine has returned: only what outlives it is kept (a reader that
\* Run left behind keeps running)
Ended(d) ==
  [d EXCEPT !.pc = "done", !.err = NoError, !.child = "none", !.path = "", !.qlen = 0,
            !.stops = 0]

\* line 222
ExecTryRun(n) ==
  /\ drv[n].pc = "tryRun"
  /\ tryRun([drv EXCEPT ![n] = Ended(drv[n])])
  /\ cancelled' = cancelled \ {n}
  /\ UNCHANGED <<dispatch, goos, maxRunner, nEnq, trace, stopCall, setCall>>
  /\ ret' = NoRet

\* ---- the callers of the scheduler ----
\* Task IDs are opaque to the scheduler, which only tests them for equality:
\* a caller offers an ID it has used before, or the first one it has not.
Offered ==
  {IDOrder[i] : i \in {j \in 1..Len(IDOrder) :
                         \A k \in 1..(j - 1) : IDOrder[k] \in DOMAIN tasks}}

Fresh == Offered \ DOMAIN tasks

ClientEnqueue ==
  /\ nEnq < MaxEnqueues
  /\ \E id \in Offered : Enqueue(id)

ClientEnqueueFresh ==
  /\ nEnq < MaxFresh
  /\ \E id \in Fresh : Enqueue(id)

ClientEnqueueRun ==
  /\ nEnq < MaxRuns
  /\ \E id \in Fresh : Enqueue(id)

ClientSetMaxRunner == \E n \in 1..MaxCap : SetMaxRunnerAssign(n)

ClientStop == \E id \in Offered : StopLookup(id)

\* the steps of execute outside Download
Driver(n) ==
  \/ ExecLock(n)
  \/ ExecStart(n)
  \/ ExecRemove(n)
  \/ ExecStatus(n)
  \/ ExecCallback(n)
  \/ ExecTryRun(n)

\* q.downloader is the Downloader interface: to the scheduler a Download call
\* is a call that returns an error value at some time.  DownloaderSvc returns
\* the cancellation error only for a context that was cancelled.
Returns(n) ==
  {NoError, ErrExit} \cup (IF n \in cancelled THEN {ErrCanceled} ELSE {})

DownloadReturn(n, e) ==
  /\ drv[n].pc = "download"
  /\ e \in Returns(n)
  /\ drv' = [drv EXCEPT ![n].pc = "remove", ![n].err = e]
  /\ UNCHANGED <<dispatch, goos, maxRunner, queue, active, tasks, nEnq, cancelled, trace, stopCall, setCall>>
  /\ ret' = NoRet

\* every way Download can go
AnyRun(n) ==
  \/ \E e \in {ErrUnsupportedType, ErrBinNotFound, ErrRegexp} : DownloadReject(n, e)
  \/ \E path \in {"pty", "pipe"}, lines \in 0..MaxLines : RunStart(n, path, lines)
  \/ RunStartFails(n)
  \/ \E ev \in LineEvents : ReadLine(n, ev)
  \/ ReaderEnd(n)
  \/ \E code \in {"exit0", "exit1"} : ChildExit(n, code)
  \/ ChildKill(n)
  \/ RunCtxDone(n)
  \/ RunCmdDone(n)
  \/ RunDrained(n)
  \/ PipeDone(n)

\* ---- the scheduler over the Downloader interface ----
\* (no action of these specifications reads goos)
InitUnix == Init /\ goos = "unix"

Scheduler ==
  \/ ClientSetMaxRunner
  \/ SetMaxRunnerTryRun
  \/ ClientStop
  \/ StopCancel
  \/ \E n \in Runs : Driver(n)
  \/ \E n \in Runs, e \in {NoError, ErrExit, ErrCanceled} : DownloadReturn(n, e)

\* task IDs chosen by the callers, who may repeat them
Next == ClientEnqueue \/ Scheduler

Spec == InitUnix /\ [][Next]_vars

\* every task under an ID of its own
NextFresh == ClientEnqueueFresh \/ Scheduler

SpecFresh == InitUnix /\ [][NextFresh]_vars

\* ---- runs followed line by line, on either platform and path ----
NextRun ==
  \/ ClientEnqueueRun
  \/ ClientStop
  \/ StopCancel
  \/ \E n \in Runs : Driver(n)
  \/ \E n \in Runs : AnyRun(n)

SpecRun == Init /\ [][NextRun]_vars

\* ======================= properties =======================
TerminalNames == {"OnSuccess", "OnFailed", "OnStopped"}

IsTerminal(cb) == cb \in TerminalNames

\* the terminal hooks fired for a run, in order
Terminals(t) == SelectSeq(t, IsTerminal)

\* the runs waiting in a pending queue
Waiting(qu) == {qu[i].n : i \in 1..Len(qu)}

\* C1 as stated: in every reachable state the active set has at most
\* maxRunner entries.
C1_ActiveWithinCap == Len0(active) <= maxRunner

\* C1 amended: every step that adds an entry to the active set (or replaces
\* one) leaves at most maxRunner entries in it, and the active set comes to
\* exceed maxRunner only by a step that lowers maxRunner and leaves the active
\* set as it is.
C1_AdmissionWithinCap ==
  [][ /\ (\E id \in DOMAIN active' :
             id \notin DOMAIN active \/ active'[id] # active[id])
          => Len0(active') <= maxRunner'
      /\ (Len0(active') > maxRunner' /\ Len0(active) <= maxRunner)
          => (maxRunner' < maxRunner /\ active' = active) ]_vars

\* the cap was lowered below the number of active tasks and a task is held back
C1_Witness == Len0(active) > maxRunner /\ Len(queue) > 0

\* C2: with pairwise-distinct task IDs, a run has fired no terminal hook until
\* its driver has passed the switch that follows Download, and exactly one of
\* OnSuccess, OnFailed, OnStopped from then on.
C2_ExactlyOneTerminal ==
  \A n \in Runs :
    Len(Terminals(trace[n])) = IF drv[n].pc \in {"tryRun", "done"} THEN 1 ELSE 0

\* two drivers have returned, one stopped and one successful
C2_Witness ==
  \E n, m \in Runs :
    /\ drv[n].pc = "done" /\ Terminals(trace[n]) = <<"OnStopped">>
    /\ drv[m].pc = "done" /\ Terminals(trace[m]) = <<"OnSuccess">>

\* C3: for every run, each OnProgress and OnMessage comes after the run's
\* OnStart and before its terminal hook.
C3_HookOrder ==
  \A n \in Runs : \A i \in 1..Len(trace[n]) :
    trace[n][i] \in {"OnProgress", "OnMessage"} =>
      /\ \E j \in 1..(i - 1) : trace[n][j] = "OnStart"
      /\ \A j \in 1..(i - 1) : ~IsTerminal(trace[n][j])

\* C4: a run that leaves the pending queue is the one that entered it first
\* among those waiting, and it leaves by being admitted: its driver is
\* spawned and its cancel handle is in the active set.
C4_Fifo ==
  [][ \A a \in Waiting(queue) \ Waiting(queue') :
        /\ \A b \in Waiting(queue) : a <= b
        /\ drv'[a].pc = "lock"
        /\ drv'[a].ID \in DOMAIN active'
        /\ active'[drv'[a].ID] = a ]_vars

\* runs 2 and 3 waited together (run 3 was logged as second in the queue);
\* run 2 has been admitted and run 3 still waits
C4_Witness ==
  /\ drv[3].qlen = 2 /\ drv[3].pc = "idle" /\ 3 \in Waiting(queue)
  /\ drv[2].qlen = 1 /\ drv[2].pc = "lock"

\* C5: a run whose cancel handle Stop has invoked ends with OnStopped and
\* Status stopped (stated where the run has fired its terminal hook), and once
\* OnStopped has fired the id is out of the active set, so that a later Stop
\* returns task-not-found.
C5_StopEndsStopped ==
  \A n \in Runs :
    /\ (n \in cancelled /\ drv[n].pc = "tryRun") =>
         /\ Terminals(trace[n]) = <<"OnStopped">>
         /\ tasks[drv[n].ID].Status = StatusStopped
    /\ (drv[n].pc = "tryRun" /\ Terminals(trace[n]) = <<"OnStopped">>) =>
         ~StopFound(active, drv[n].ID)

\* C6: the Status of a task record changes only from pending to downloading
\* and from downloading to success, failed or stopped.
StatusSteps ==
  {<<StatusPending, StatusDownloading>>, <<StatusDownloading, StatusSuccess>>,
   <<StatusDownloading, StatusFailed>>, <<StatusDownloading, StatusStopped>>}

C6_StatusOrder ==
  [][ \A id \in DOMAIN tasks :
        (tasks'[id].n = tasks[id].n /\ tasks'[id].Status # tasks[id].Status)
          => <<tasks[id].Status, tasks'[id].Status>> \in StatusSteps ]_vars

\* C7: no task ID is in the pending queue and in the active set at once.
C7_PendingActiveDisjoint ==
  \A i \in 1..Len(queue) : queue[i].ID \notin DOMAIN active

\* C8: an Enqueue call leaves a task record for its ID; when the active set is
\* below maxRunner at the call it returns downloading, having added the ID to
\* the active set with a handle no entry held before and spawned the driver,
\* the pending queue untouched; otherwise it returns pending, having appended
\* the task at the tail of the pending queue, the active set untouched.
C8_Enqueue ==
  [][ nEnq' = nEnq + 1 =>
        \E id \in TaskIDs :
          /\ id \in DOMAIN tasks'
          /\ tasks'[id].n = nEnq'
          /\ IF Len0(active) < maxRunner
             THEN /\ ret' = [op |-> "Enqueue", val |-> StatusDownloading]
                  /\ tasks'[id].Status = StatusDownloading
                  /\ active' = Put(active, id, nEnq')
                  /\ \A x \in DOMAIN active : active[x] # nEnq'
                  /\ drv'[nEnq'].pc = "lock"
                  /\ queue' = queue
             ELSE /\ ret' = [op |-> "Enqueue", val |-> StatusPending]
                  /\ tasks'[id].Status = StatusPending
                  /\ queue' = Append(queue, [ID |-> id, n |-> nEnq'])
                  /\ active' = active
                  /\ drv'[nEnq'].pc = "idle" ]_vars

\* Enqueue has just returned pending for a task put behind a waiting one
C8_Witness ==
  ret = [op |-> "Enqueue", val |-> StatusPending] /\ Len(queue) = 2

\* C9: a Stop call whose id is not in the active set returns task-not-found
\* and changes nothing (no context is cancelled, the pending queue, the active
\* set, the task records, the drivers and the hooks fired are as before); a
\* Stop call whose id is in the active set does not return it: it takes the
\* handle stored for the id and returns nil after invoking it.
C9_StopNotFound ==
  [][ /\ \A id \in TaskIDs :
           StopLookup(id) =>
             IF id \notin DOMAIN active
             THEN /\ ret' = [op |-> "Stop", val |-> ErrTaskNotFound]
                  /\ stopCall' = NoStop
                  /\ UNCHANGED <<queue, active, tasks, drv, cancelled, trace, maxRunner>>
             ELSE /\ ret' = NoRet
                  /\ stopCall' = [id |-> id, h |-> active[id]]
      /\ (ret' = [op |-> "Stop", val |-> ErrTaskNotFound] /\ ret' # ret)
           => UNCHANGED <<queue, active, tasks, drv, cancelled, trace, stopCall>>
      /\ StopCancel => ret' = [op |-> "Stop", val |-> NoError] ]_vars

\* Stop has just returned task-not-found where every task ID has been
\* enqueued, one is active and the others wait in the pending queue: the call
\* named a waiting task
C9_Witness ==
  /\ ret = [op |-> "Stop", val |-> ErrTaskNotFound]
  /\ DOMAIN tasks = TaskIDs
  /\ Len0(active) = 1
  /\ Waiting(queue) = {2, 3}

\* C10: once the switch that follows Download has run, the outcome is the one
\* the returned error selects (nil: success, Percent 100, OnSuccess; the
\* cancellation error: stopped, OnStopped; any other: failed, Error the error
\* text, OnFailed) and the id is out of the active set; the driver's last step
\* is tryRun, which admits the head of the pending queue if there is room.
C10_Classified ==
  \A n \in Runs :
    drv[n].pc = "tryRun" =>
      LET id == drv[n].ID
          e == drv[n].err
      IN /\ id \notin DOMAIN active
         /\ e = NoError =>
              /\ tasks[id].Status = StatusSuccess
              /\ tasks[id].Percent = 100
              /\ Terminals(trace[n]) = <<"OnSuccess">>
         /\ e = ErrCanceled =>
              /\ tasks[id].Status = StatusStopped
              /\ Terminals(trace[n]) = <<"OnStopped">>
         /\ e \notin {NoError, ErrCanceled} =>
              /\ tasks[id].Status = StatusFailed
              /\ tasks[id].Error = e
              /\ Terminals(trace[n]) = <<"OnFailed">>

C10_Outcome ==
  /\ []C10_Classified
  /\ [][ \A n \in Runs :
           (drv[n].pc = "tryRun" /\ drv'[n].pc = "done") =>
              IF Len0(active) < maxRunner /\ Len(queue) > 0
              THEN /\ queue' = Tail(queue)
                   /\ Head(queue).ID \in DOMAIN active'
                   /\ drv'[Head(queue).n].pc = "lock"
              ELSE queue' = queue /\ active' = active ]_vars

\* a driver has ended after a failure and its tryRun has admitted the task
\* that waited, whose own run ended in success after a progress event
C10_Witness ==
  \E n, m \in Runs :
    /\ drv[n].pc = "done" /\ tasks[drv[n].ID].Status = StatusFailed
    /\ tasks[drv[n].ID].Error = ErrKilled
    /\ drv[m].pc = "tryRun" /\ drv[m].err = NoError /\ drv[m].qlen = 1
    /\ Terminals(trace[m]) = <<"OnSuccess">>
    /\ \E i \in 1..Len(trace[m]) : trace[m][i] = "OnProgress"

\* C11: a SetMaxRunner(n) call with n below the number of active tasks cancels
\* no context, leaves the active set, the pending queue, the task records and
\* the drivers as they are and fires no hook, in its assignment and in its
\* tryRun alike; and a step adds an ID to the active set only from a state
\* where the active set is below maxRunner.
C11_NonPreemptive ==
  [][ /\ \A n \in 1..MaxCap :
           (SetMaxRunnerAssign(n) /\ n < Len0(active)) =>
              UNCHANGED <<active, cancelled, tasks, queue, drv, trace, stopCall>>
      /\ (SetMaxRunnerTryRun /\ Len0(active) >= maxRunner) =>
              UNCHANGED <<active, cancelled, tasks, queue, drv, trace, stopCall>>
      /\ (\E id \in DOMAIN active' : id \notin DOMAIN active) =>
              Len0(active) < maxRunner ]_vars

\* a SetMaxRunner call has set the cap below the number of active tasks and
\* is about to call tryRun while a task waits
C11_Witness == setCall /\ maxRunner < Len0(active) /\ Len(queue) > 0

\* the positions of a driver from its spawning until it has taken its ID out
\* of the active set
LivePc == {"lock", "start", "download", "run", "drain", "remove"}

\* the drivers spawned for id that have not yet removed it from the active set
DriversOf(id) == {n \in Runs : drv[n].ID = id /\ drv[n].pc \in LivePc}

\* C12: for every id in the active set exactly one driver is running for it,
\* and the cancel handle stored for the id is the one of that driver's context.
C12_OneDriverPerActive ==
  \A id \in DOMAIN active : DriversOf(id) = {active[id]}

\* ======== execute statement by statement, with the scheduler mutex ========
\* drv[n].mu: goroutine n holds q.mu.  The hooks are taken to call back into
\* the scheduler (GetTask), which takes q.mu; sync.RWMutex is not reentrant.
MutexFree == \A m \in Runs : ~drv[m].mu

Lock(d) == [d EXCEPT !.mu = TRUE]

\* (mutant: the unlock is deferred to the end of execute)
UnlockDeferred(d) == d

Unlock(d) == [d EXCEPT !.mu = FALSE]

\* the statements of execute that call q.mu.Lock(), named by their line, and
\* the statement each is followed by
LockPcs == {"lock", "x157", "x177", "x186", "x222"}

AfterLock(pc) ==
  CASE pc = "lock" -> "x143"
    [] pc = "x157" -> "x158"
    [] pc = "x177" -> "x178"
    [] pc = "x186" -> "x187"
    [] OTHER -> "x123"

\* inside a hook, and the statement the hook returns to
HookPcs == {"hStart", "hMessage", "hProgress", "hTerminal"}

AfterHook(pc) ==
  CASE pc = "hStart" -> {"x154"}
    [] pc = "hMessage" -> {"x154", "x157"}
    [] pc = "hProgress" -> {"x154"}
    [] OTHER -> {"x222"}

MuLock(n) ==
  /\ drv[n].pc \in LockPcs
  /\ MutexFree
  /\ drv' = [drv EXCEPT ![n] = Lock([drv[n] EXCEPT !.pc = AfterLock(drv[n].pc)])]
  /\ UNCHANGED <<dispatch, goos, maxRunner, queue, active, tasks, nEnq, cancelled, trace, stopCall, setCall>>
  /\ ret' = NoRet

\* lines 143-146
MuMark(n) ==
  /\ drv[n].pc = "x143"
  /\ tasks' = IF drv[n].ID \in DOMAIN tasks
              THEN [tasks EXCEPT ![drv[n].ID].Status = StatusDownloading]
              ELSE tasks
  /\ drv' = [drv EXCEPT ![n] = Unlock([@ EXCEPT !.pc = "x149"])]
  /\ UNCHANGED <<dispatch, goos, maxRunner, queue, active, nEnq, cancelled, trace, stopCall, setCall>>
  /\ ret' = NoRet

\* lines 149-151: q.onStart(p.ID) is entered
MuOnStart(n) ==
  /\ drv[n].pc = "x149"
  /\ Fire(n, "OnStart")
  /\ drv' = [drv EXCEPT ![n].pc = "hStart"]
  /\ UNCHANGED <<dispatch, goos, maxRunner, queue, active, tasks, nEnq, cancelled, stopCall, setCall>>
  /\ ret' = NoRet

\* the hook takes q.mu for its call into the scheduler, releases it and returns
MuHookReturn(n, to) ==
  /\ drv[n].pc \in HookPcs
  /\ MutexFree
  /\ to \in AfterHook(drv[n].pc)
  /\ drv' = [drv EXCEPT ![n].pc = to]
  /\ UNCHANGED <<dispatch, goos, maxRunner, queue, active, tasks, nEnq, cancelled, trace, stopCall, setCall>>
  /\ ret' = NoRet

\* lines 169-173: Download delivers a line, q.onMessage(m) is entered
MuOnMessage(n) ==
  /\ drv[n].pc = "x154"
  /\ drv[n].left < MaxLines
  /\ Fire(n, "OnMessage")
  /\ drv' = [drv EXCEPT ![n].pc = "hMessage", ![n].left = @ + 1]
  /\ UNCHANGED <<dispatch, goos, maxRunner, queue, active, tasks, nEnq, cancelled, stopCall, setCall>>
  /\ ret' = NoRet

\* lines 158-163
MuProgress(n, v) ==
  /\ drv[n].pc = "x158"
  /\ v \in PercentValues
  /\ tasks' = IF drv[n].ID \in DOMAIN tasks
              THEN [tasks EXCEPT ![drv[n].ID].Percent = v]
              ELSE tasks
  /\ drv' = [drv EXCEPT ![n] = Unlock([@ EXCEPT !.pc = "x165"])]
  /\ UNCHANGED <<dispatch, goos, maxRunner, queue, active, nEnq, cancelled, trace, stopCall, setCall>>
  /\ ret' = NoRet

\* lines 165-167: q.onProgress(e) is entered
MuOnProgress(n) ==
  /\ drv[n].pc = "x165"
  /\ Fire(n, "OnProgress")
  /\ drv' = [drv EXCEPT ![n].pc = "hProgress"]
  /\ UNCHANGED <<dispatch, goos, maxRunner, queue, active, tasks, nEnq, cancelled, stopCall, setCall>>
  /\ ret' = NoRet

\* line 154: Download returns
MuDownloadReturn(n, e) ==
  /\ drv[n].pc = "x154"
  /\ e \in Returns(n)
  /\ drv' = [drv EXCEPT ![n].pc = "x177", ![n].err = e]
  /\ UNCHANGED <<dispatch, goos, maxRunner, queue, active, tasks, nEnq, cancelled, trace, stopCall, setCall>>
  /\ ret' = NoRet

\* lines 178-179
MuRemove(n) ==
  /\ drv[n].pc = "x178"
  /\ active' = Del(active, drv[n].ID)
  /\ drv' = [drv EXCEPT ![n] = Unlock([@ EXCEPT !.pc = "x186"])]
  /\ UNCHANGED <<dispatch, goos, maxRunner, queue, tasks, nEnq, cancelled, trace, stopCall, setCall>>
  /\ ret' = NoRet

\* lines 187-191, 199-202, 212-216
MuStatus(n) ==
  /\ drv[n].pc = "x187"
  /\ tasks' = IF drv[n].ID \in DOMAIN tasks
              THEN [tasks EXCEPT ![drv[n].ID] = Outcome(@, drv[n].err)]
              ELSE tasks
  /\ drv' = [drv EXCEPT ![n] = Unlock([@ EXCEPT !.pc = "x192"])]
  /\ UNCHANGED <<dispatch, goos, maxRunner, queue, active, nEnq, cancelled, trace, stopCall, setCall>>
  /\ ret' = NoRet

\* lines 192-194, 203-205, 217-219: the terminal hook is entered
MuOnTerminal(n) ==
  /\ drv[n].pc = "x192"
  /\ trace' = [trace EXCEPT ![n] = @ \o TerminalHooks(drv[n].err)]
  /\ drv' = [drv EXCEPT ![n].pc = "hTerminal"]
  /\ UNCHANGED <<dispatch, goos, maxRunner, queue, active, tasks, nEnq, cancelled, stopCall, setCall>>
  /\ ret' = NoRet

\* lines 123-132 and the deferred unlock of line 121, then execute returns
MuTryRun(n) ==
  /\ drv[n].pc = "x123"
  /\ tryRun([drv EXCEPT ![n] = Unlock(Ended([drv[n] EXCEPT !.left = 0]))])
  /\ cancelled' = cancelled \ {n}
  /\ UNCHANGED <<dispatch, goos, maxRunner, nEnq, trace, stopCall, setCall>>
  /\ ret' = NoRet

MuDriver(n) ==
  \/ MuLock(n)
  \/ MuMark(n)
  \/ MuOnStart(n)
  \/ \E to \in {"x154", "x157", "x222"} : MuHookReturn(n, to)
  \/ MuOnMessage(n)
  \/ \E v \in PercentValues : MuProgress(n, v)
  \/ MuOnProgress(n)
  \/ \E e \in {NoError, ErrExit, ErrCanceled} : MuDownloadReturn(n, e)
  \/ MuRemove(n)
  \/ MuStatus(n)
  \/ MuOnTerminal(n)
  \/ MuTryRun(n)

\* the critical sections of Enqueue and Stop wait for the mutex
MuEnqueue == MutexFree /\ ClientEnqueueRun

MuStop == MutexFree /\ ClientStop

NextMu ==
  \/ MuEnqueue
  \/ MuStop
  \/ StopCancel
  \/ \E n \in Runs : MuDriver(n)

SpecMu == InitUnix /\ [][NextMu]_vars

\* C13: a driver that is inside a hook (OnStart, OnProgress, OnMessage,
\* OnSuccess, OnFailed, OnStopped) does not hold the scheduler mutex, so the
\* hook's own call into the scheduler is not blocked by its caller.
C13_NoHookUnderLock ==
  \A n \in Runs : drv[n].pc \in HookPcs => ~drv[n].mu

\* one driver is inside its OnProgress hook while another goroutine is inside
\* a critical section
C13_Witness ==
  \E n, m \in Runs :
    /\ drv[n].pc = "hProgress" /\ ~drv[n].mu
    /\ drv[m].pc = "x187" /\ drv[m].mu

\* ======== scenario S1: maxRunner 2, three tasks, the first ends first ========
InitS1 == InitUnix /\ maxRunner = 2

\* every Download succeeds; none returns before the three Enqueue calls are
\* made, and those of the second and third task return after the first
\* task's driver has ended
S1Return(n) ==
  /\ nEnq = Len(IDOrder)
  /\ n = 1 \/ drv[1].pc = "done"
  /\ DownloadReturn(n, NoError)

\* one task for each of the IDs A, B, C
S1Enqueue ==
  /\ nEnq < Len(IDOrder)
  /\ \E id \in Fresh : Enqueue(id)

NextS1 ==
  \/ S1Enqueue
  \/ \E n \in Runs : Driver(n)
  \/ \E n \in Runs : S1Return(n)

SpecS1 == InitS1 /\ [][NextS1]_vars

Started(n) == \E i \in 1..Len(trace[n]) : trace[n][i] = "OnStart"

Succeeded(n) == \E i \in 1..Len(trace[n]) : trace[n][i] = "OnSuccess"

\* C14 as stated: in scenario S1 the hooks come in the order OnStart(A),
\* OnStart(B), OnSuccess(A), OnStart(C), then OnSuccess(B) and OnSuccess(C).
C14_S1TotalOrder ==
  /\ Started(2) => Started(1)
  /\ Succeeded(1) => Started(2)
  /\ Started(3) => Succeeded(1)
  /\ Succeeded(2) => Started(3)
  /\ Succeeded(3) => Started(3)

\* C14 amended: in scenario S1 Enqueue returns downloading for A and B and
\* pending for C; C is out of the pending queue and admitted once A's driver
\* has ended; OnSuccess(A) comes before OnStart(C), and every task's OnStart
\* before its OnSuccess, each task firing these two hooks and no other.
C14_S1Order ==
  /\ [](/\ \A n \in Runs : Succeeded(n) => Started(n)
        /\ Started(3) => Succeeded(1)
        /\ drv[1].pc = "done" => (3 \notin Waiting(queue) /\ drv[3].pc # "idle")
        /\ \A n \in Runs : drv[n].pc = "done" => trace[n] = <<"OnStart", "OnSuccess">>)
  /\ [][ nEnq' = nEnq + 1 =>
           ret' = [op |-> "Enqueue",
                   val |-> IF nEnq' = Len(IDOrder) THEN StatusPending ELSE StatusDownloading] ]_vars

\* the three tasks have ended, C after waiting behind A and B
C14_Witness ==
  /\ \A n \in 1..Len(IDOrder) : drv[n].pc = "done" /\ trace[n] = <<"OnStart", "OnSuccess">>
  /\ \A id \in TaskIDs : tasks[id].Status = StatusSuccess

\* ======== repeated Stop calls: cancel() invocations counted per context ========
Min(a, b) == IF a < b THEN a ELSE b

\* cancel(), with drv[h].stops the number of times the handle of run h has
\* been invoked so far
StopCancelCounted ==
  /\ stopCall # NoStop
  /\ cancelled' = Cancel(cancelled, stopCall.h)
  /\ drv' = IF stopCall.h \in Runs /\ drv[stopCall.h].pc # "done"
            THEN [drv EXCEPT ![stopCall.h].stops = Min(@ + 1, MaxStops)]
            ELSE drv
  /\ stopCall' = NoStop
  /\ ret' = [op |-> "Stop", val |-> NoError]
  /\ UNCHANGED <<dispatch, goos, maxRunner, queue, active, tasks, nEnq, trace, setCall>>

\* one task is enough to show what repeated Stop calls do to its run
StopEnqueue ==
  /\ nEnq = 0
  /\ \E id \in Fresh : Enqueue(id)

NextStop ==
  \/ StopEnqueue
  \/ ClientStop
  \/ StopCancelCounted
  \/ \E n \in Runs : Driver(n)
  \/ \E n \in Runs : AnyRun(n)

SpecStop == Init /\ [][NextStop]_vars

\* C15: every Stop call that finds its id in the active set returns nil, a
\* second such call for the same run changes nothing, and a run stopped twice
\* or more ends with exactly one OnStopped and no other terminal hook.
C15_StopIdempotent ==
  /\ [](\A n \in Runs :
          (drv[n].stops >= 2 /\ drv[n].pc = "tryRun") =>
             Terminals(trace[n]) = <<"OnStopped">>)
  /\ [][ StopCancelCounted =>
           /\ ret' = [op |-> "Stop", val |-> NoError]
           /\ stopCall.h \in cancelled => cancelled' = cancelled ]_vars

\* ======================================================================
\* Progress throttle: progressTracker and the onLine closure of Download
\* ======================================================================
\* Percents are kept in tenths of a percent (1.0 is 10), times in milliseconds.
ThrottleMs == 200     \* 200*time.Millisecond
HalfPercent == 5      \* 0.5, in tenths of a percent

Abs(x) == IF x < 0 THEN 0 - x ELSE x

\* progressTracker.shouldUpdate, with t the value of time.Now()
shouldUpdate(recs, id, t, percent, speed) ==
  IF id \notin DOMAIN recs THEN TRUE
  ELSE IF t - recs[id].lastUpdate < ThrottleMs THEN FALSE
  ELSE IF Abs(percent - recs[id].lastPercent) >= HalfPercent THEN TRUE
  ELSE speed # recs[id].lastSpeed

\* progressTracker.update
update(recs, id, t, percent, speed) ==
  Put(recs, id, [lastPercent |-> percent, lastSpeed |-> speed, lastUpdate |-> t])

\* progressTracker.remove
remove(recs, id) == Del(recs, id)

\* the percents and speeds the child's progress lines carry
LinePercents == {50, 54, 55}
LineSpeeds == {"1MB/s", "2MB/s"}

\* the streams the runner reads: one on the PTY, stdout and stderr on pipes
StreamsOf(path) == IF path = "pty" THEN {"stdout"} ELSE Streams

Reading(id) == {s \in Streams : reader[id][s].pc # "none"}

\* Download up to runner.Run: a fresh parseState, the reader goroutines start
RunReaders(id, path) ==
  /\ Reading(id) = {}
  /\ st' = [st EXCEPT ![id] = NoParse]
  /\ reader' = [reader EXCEPT ![id] =
                  [s \in Streams |-> IF s \in StreamsOf(path)
                                     THEN [NoReader EXCEPT !.pc = "scan"]
                                     ELSE NoReader]]
  /\ UNCHANGED <<now, records, events>>

\* onLine up to the throttle decision, for a line that yields percent and speed:
\* parse stores them in the shared parseState and makes it ready
onLine(id, s, percent, speed) ==
  /\ reader[id][s].pc = "scan"
  /\ st' = [st EXCEPT ![id] = [ready |-> TRUE, percent |-> percent, speed |-> speed]]
  /\ LET ok == shouldUpdate(records, id, now, percent, speed)
     IN reader' = [reader EXCEPT ![id][s] =
                     [pc |-> IF ok THEN "emit" ELSE "scan", k |-> @.k + 1, ok |-> ok]]
  /\ UNCHANGED <<now, records, events>>

\* cb.OnProgress(ProgressEvent{Type: "progress", Percent: st.percent, Speed: st.speed})
OnProgressEvent(id, s) ==
  /\ reader[id][s].pc = "emit"
  /\ events' = [events EXCEPT ![id] =
                  Append(@, [t |-> now, Percent |-> st[id].percent, Speed |-> st[id].speed])]
  /\ reader' = [reader EXCEPT ![id][s].pc = "update"]
  /\ UNCHANGED <<now, records, st>>

\* d.tracker.update(p.ID, st.percent, st.speed)
TrackerUpdate(id, s) ==
  /\ reader[id][s].pc = "update"
  /\ records' = update(records, id, now, st[id].percent, st[id].speed)
  /\ reader' = [reader EXCEPT ![id][s].pc = "scan"]
  /\ UNCHANGED <<now, st, events>>

\* the scanner reaches the end of its stream
ReaderEof(id, s) ==
  /\ reader[id][s].pc = "scan"
  /\ reader' = [reader EXCEPT ![id][s].pc = "eof"]
  /\ UNCHANGED <<now, records, st, events>>

\* runner.Run has returned: d.tracker.remove(p.ID)
TrackerRemove(id) ==
  /\ Reading(id) # {}
  /\ \A s \in Reading(id) : reader[id][s].pc = "eof"
  /\ records' = remove(records, id)
  /\ reader' = [reader EXCEPT ![id] =
                  [s \in Streams |-> IF s \in Reading(id)
                                     THEN [reader[id][s] EXCEPT !.pc = "done"]
                                     ELSE reader[id][s]]]
  /\ UNCHANGED <<now, st, events>>

\* time passes
Tick(d) ==
  /\ now + d <= MaxTime
  /\ now' = now + d
  /\ UNCHANGED <<records, st, reader, events>>

\* what the progress dispatcher leaves alone: the scheduler and the registry
schedVars == <<goos, maxRunner, queue, active, tasks, nEnq, drv, cancelled, trace,
               stopCall, setCall, ret>>

queueVars == <<schedVars, registry, units>>

\* one Download call for one task id
ThrottleID == IDOrder[1]

ThrRun == (\E path \in {"pty", "pipe"} : RunReaders(ThrottleID, path)) /\ UNCHANGED queueVars

ThrLine ==
  /\ \E s \in Streams, percent \in LinePercents, speed \in LineSpeeds :
        reader[ThrottleID][s].k < MaxThrLines /\ onLine(ThrottleID, s, percent, speed)
  /\ UNCHANGED queueVars

ThrEmit == (\E s \in Streams : OnProgressEvent(ThrottleID, s)) /\ UNCHANGED queueVars

ThrUpdate == (\E s \in Streams : TrackerUpdate(ThrottleID, s)) /\ UNCHANGED queueVars

ThrEof == (\E s \in Streams : ReaderEof(ThrottleID, s)) /\ UNCHANGED queueVars

ThrRemove == TrackerRemove(ThrottleID) /\ UNCHANGED queueVars

ThrTick == Tick(TickMs) /\ UNCHANGED queueVars

NextThrottle ==
  \/ ThrRun
  \/ ThrLine
  \/ ThrEmit
  \/ ThrUpdate
  \/ ThrEof
  \/ ThrRemove
  \/ ThrTick

InitThrottle == InitUnix /\ maxRunner = 1

SpecThrottle == InitThrottle /\ [][NextThrottle]_vars

\* C16: for a task id that already has a throttle record, the decision
\* suppresses the progress callback exactly when the time since the last
\* reported update is below the threshold and the percent moved by less than
\* 0.5 and the speed string is the last reported one; otherwise it admits it.
C16_SuppressIffAllThree ==
  [][ \A s \in Streams, percent \in LinePercents, speed \in LineSpeeds :
        (onLine(ThrottleID, s, percent, speed) /\ ThrottleID \in DOMAIN records) =>
           (reader'[ThrottleID][s].ok =
              ~ ( /\ now - records[ThrottleID].lastUpdate < ThrottleMs
                  /\ Abs(percent - records[ThrottleID].lastPercent) < HalfPercent
                  /\ speed = records[ThrottleID].lastSpeed )) ]_vars

\* an event that repeats the previously emitted one: percent within 0.5, speed equal
NearDup(e, prev) == Abs(e.Percent - prev.Percent) < HalfPercent /\ e.Speed = prev.Speed

NearDups(id) ==
  {i \in 2..Len(events[id]) : NearDup(events[id][i], events[id][i - 1])}

\* C18: in every 200 ms window of a run, at most one progress event of the
\* task is emitted that repeats the previously emitted one (percent within
\* 0.5 of it and the same speed).
C18_OneNearDupPerWindow ==
  \A i, j \in NearDups(ThrottleID) :
     i < j => events[ThrottleID][j].t - events[ThrottleID][i].t >= ThrottleMs

\* ---- scenario S3: six progress lines within 50 ms, one speed string ----
S3Percents == <<10, 11, 12, 13, 14, 20>>

S3Run == RunReaders(ThrottleID, "pty") /\ UNCHANGED queueVars

\* the next line of the stream; its speed is the one the first line carried
S3Line ==
  /\ reader[ThrottleID]["stdout"].k < Len(S3Percents)
  /\ \E speed \in LineSpeeds :
        /\ st[ThrottleID].ready => speed = st[ThrottleID].speed
        /\ onLine(ThrottleID, "stdout", S3Percents[reader[ThrottleID]["stdout"].k + 1], speed)
  /\ UNCHANGED queueVars

S3Eof ==
  /\ reader[ThrottleID]["stdout"].k = Len(S3Percents)
  /\ ReaderEof(ThrottleID, "stdout")
  /\ UNCHANGED queueVars

S3Tick == now < S3WindowMs /\ Tick(S3TickMs) /\ UNCHANGED queueVars

NextS3 ==
  \/ S3Run
  \/ S3Line
  \/ ThrEmit
  \/ ThrUpdate
  \/ S3Eof
  \/ ThrRemove
  \/ S3Tick

SpecS3 == InitThrottle /\ [][NextS3]_vars

S3Fed == reader[ThrottleID]["stdout"].k = Len(S3Percents)
            /\ reader[ThrottleID]["stdout"].pc \in {"scan", "eof", "done"}

EventPercents(id) == [i \in 1..Len(events[id]) |-> events[id][i].Percent]

\* C17: once the S3 stream (percents 1.0, 1.1, 1.2, 1.3, 1.4, 2.0 within 50 ms,
\* one speed string) has been fed to one Download call, exactly two progress
\* events have been delivered: the first (1.0) and the one crossing 0.5 (2.0).
C17_S3TwoEvents == S3Fed => EventPercents(ThrottleID) = <<10, 20>>

\* ======================================================================
\* Schema loading and the lookups of Download
\* ======================================================================
BadPercent == [GoodReg EXCEPT !.Percent = "("]
BadIsLive == [GoodReg EXCEPT !.IsLive = "("]

\* the schema lists a configuration file may hold
SchemaLists ==
  { <<>>,
    <<NewSchema("m3u8", GoodReg)>>,
    <<NewSchema("m3u8", BadPercent)>>,
    <<NewSchema("bilibili", GoodReg)>>,
    <<NewSchema("bilibili", BadIsLive), NewSchema("m3u8", GoodReg)>> }

\* a schema source: a file that is JSON holding a list, or is not JSON
SchemaSources ==
  {[json |-> TRUE, Schemas |-> l] : l \in SchemaLists}
     \cup {[json |-> FALSE, Schemas |-> <<>>]}

BinMaps ==
  { EmptyMap,
    [t \in {"m3u8"} |-> ""],
    [t \in DownloadTypes |-> "/bin/dl"] }

\* LoadSchemasFromJSON: read the file, json.Unmarshal, return the list
LoadSchemasFromJSON(src) ==
  IF ~src.json THEN [err |-> ErrJSON, Schemas |-> <<>>]
  ELSE [err |-> NoError, Schemas |-> src.Schemas]

\* SchemaList.GetByType: the index of the first schema of the type, or 0
GetByType(sl, t) ==
  IF \E i \in 1..Len(sl) : sl[i].Type = t
  THEN CHOOSE i \in 1..Len(sl) : sl[i].Type = t /\ \A j \in 1..(i - 1) : sl[j].Type # t
  ELSE 0

\* newLineParser: compile every non-empty pattern, the first failure is returned
newLineParser(cr) ==
  IF \E p \in {cr.Percent, cr.Speed, cr.Error, cr.Start, cr.IsLive} : p # "" /\ ~WellFormed(p)
  THEN ErrRegexp
  ELSE NoError

\* the binary lookup is tried before the schema lookup
PrepareBinFirst(sl, bm, t) ==
  IF t \notin DOMAIN bm \/ bm[t] = "" THEN ErrBinNotFound
  ELSE IF GetByType(sl, t) = 0 THEN ErrUnsupportedType
  ELSE newLineParser(sl[GetByType(sl, t)].ConsoleReg)

\* Download before runner.Run: schema lookup, binary lookup, line parser
Prepare(sl, bm, t) ==
  IF GetByType(sl, t) = 0 THEN ErrUnsupportedType
  ELSE IF t \notin DOMAIN bm \/ bm[t] = "" THEN ErrBinNotFound
  ELSE newLineParser(sl[GetByType(sl, t)].ConsoleReg)

\* the download type of the task of this scenario
TaskType == "m3u8"

\* the server starts: it loads the schema file, and exits if that fails
Load(src) ==
  /\ ~schemas.loaded
  /\ LET r == LoadSchemasFromJSON(src)
     IN /\ schemas' = IF r.err = NoError
                      THEN [loaded |-> TRUE, Schemas |-> r.Schemas]
                      ELSE schemas
        /\ ret' = [op |-> "LoadSchemasFromJSON", val |-> r.err]
  /\ UNCHANGED <<goos, maxRunner, queue, active, tasks, nEnq, drv, cancelled, trace,
                 stopCall, setCall, now, records, st, reader, events, binMap, units>>

LookupLoad == \E src \in SchemaSources : Load(src)

LookupEnqueue == schemas.loaded /\ StopEnqueue

\* Download returns from one of its lookups
LookupReject ==
  \E n \in Runs :
     /\ Prepare(schemas.Schemas, binMap, TaskType) # NoError
     /\ DownloadReject(n, Prepare(schemas.Schemas, binMap, TaskType))

\* Download reaches runner.Run
LookupRun ==
  \E n \in Runs :
     /\ Prepare(schemas.Schemas, binMap, TaskType) = NoError
     /\ \/ \E path \in {"pty", "pipe"}, lines \in 0..MaxLines : RunStart(n, path, lines)
        \/ RunStartFails(n)

\* Run from a started child to its return
RunToReturn(n) ==
  \/ \E ev \in LineEvents : ReadLine(n, ev)
  \/ ReaderEnd(n)
  \/ \E code \in {"exit0", "exit1"} : ChildExit(n, code)
  \/ ChildKill(n)
  \/ RunCtxDone(n)
  \/ RunCmdDone(n)
  \/ RunDrained(n)
  \/ PipeDone(n)

InitLookup ==
  /\ InitQueue
  /\ DispatchIdle
  /\ schemas = [loaded |-> FALSE, Schemas |-> <<>>]
  /\ binMap \in BinMaps

NextLookup ==
  \/ LookupLoad
  \/ LookupEnqueue
  \/ ClientStop
  \/ StopCancel
  \/ LookupReject
  \/ LookupRun
  \/ \E n \in Runs : Driver(n)
  \/ \E n \in Runs : RunToReturn(n)

SpecLookup == InitLookup /\ [][NextLookup]_vars

NoSchema == GetByType(schemas.Schemas, TaskType) = 0

NoBinary == TaskType \notin DOMAIN binMap \/ binMap[TaskType] = ""

Fired(n) == {trace[n][i] : i \in 1..Len(trace[n])}

\* C19: Download for a type without a schema returns the unsupported-type
\* error, and for a type with a schema but a missing or empty binary path the
\* binary-not-found error (the schema is looked up first); in both cases no
\* child is ever started, no OnProgress or OnMessage fires, and the scheduler
\* ends the task as failed with OnFailed.
C19_LookupFailure ==
  \A n \in Runs :
    (drv[n].pc \in {"remove", "status", "cb", "tryRun", "done"} /\ (NoSchema \/ NoBinary)) =>
       /\ drv[n].pc # "done" =>
             drv[n].err = IF NoSchema THEN ErrUnsupportedType ELSE ErrBinNotFound
       /\ drv[n].child = "none" /\ drv[n].path = "" /\ ~drv[n].rd
       /\ Fired(n) \cap {"OnProgress", "OnMessage"} = {}
       /\ drv[n].pc \in {"tryRun", "done"} =>
             /\ trace[n] = <<"OnStart", "OnFailed">>
             /\ tasks[drv[n].ID].Status = StatusFailed

C19_Witness ==
  \E n \in Runs :
    /\ drv[n].pc = "tryRun" /\ n \in cancelled
    /\ ~NoSchema /\ NoBinary /\ drv[n].err = ErrBinNotFound
    /\ trace[n] = <<"OnStart", "OnFailed">>

\* C20: a schema source with a malformed regex in any ConsoleReg field makes
\* loading fail as a whole, so no registry holding such a schema is exposed,
\* and no Download call ever fails because a schema regex does not compile.
C20_EagerCompile ==
  /\ schemas.loaded =>
        \A i \in 1..Len(schemas.Schemas) :
           newLineParser(schemas.Schemas[i].ConsoleReg) = NoError
  /\ \A n \in Runs : drv[n].err # ErrRegexp

\* ======================================================================
\* Line framing: PTYRunner.readPTYOutput and ExecRunner's readPipe
\* ======================================================================
CR == "\r"
LF == "\n"

\* the bytes of the child's output; a text without terminators counts as one
Bytes == {"x", CR, LF}

RECURSIVE SeqsUpTo(_, _)
SeqsUpTo(S, n) ==
  IF n = 0 THEN {<<>>}
  ELSE SeqsUpTo(S, n - 1) \cup {Append(s, b) : s \in {t \in SeqsUpTo(S, n - 1) : Len(t) = n - 1}, b \in S}

\* a progress bar repainted with carriage returns, then a final line feed
Repaint == <<"downloading...", CR, "downloading 50%", CR, "downloading 100%", LF>>

ScanInputs == SeqsUpTo(Bytes, MaxInput) \cup {Repaint}

NoToken == [advance |-> 0, has |-> FALSE, token |-> <<>>]

Token(n, tok) == [advance |-> n, has |-> TRUE, token |-> tok]

First(data, S) == CHOOSE i \in 1..Len(data) : data[i] \in S /\ \A j \in 1..(i - 1) : data[j] \notin S

\* a split function that ends lines at line feeds only
SplitAtLF(data, atEOF) ==
  IF atEOF /\ Len(data) = 0 THEN NoToken
  ELSE IF \E i \in 1..Len(data) : data[i] = LF
       THEN LET i == First(data, {LF}) IN Token(i, SubSeq(data, 1, i - 1))
       ELSE IF atEOF THEN Token(Len(data), data) ELSE NoToken



\* the split function of readPTYOutput (pty.go 49-78)
SplitPTY(data, atEOF) ==
  IF atEOF /\ Len(data) = 0 THEN NoToken
  ELSE IF \E i \in 1..Len(data) : data[i] \in {CR, LF}
       THEN LET i == First(data, {CR, LF})
            IN IF data[i] = LF THEN Token(i, SubSeq(data, 1, i - 1))
               ELSE IF i + 1 <= Len(data) /\ data[i + 1] = LF
                    THEN Token(i + 1, SubSeq(data, 1, i - 1))
                    ELSE Token(i, SubSeq(data, 1, i - 1))
       ELSE IF atEOF THEN Token(Len(data), data) ELSE NoToken

\* bufio's dropCR
dropCR(data) ==
  IF Len(data) > 0 /\ data[Len(data)] = CR THEN SubSeq(data, 1, Len(data) - 1) ELSE data

\* bufio.ScanLines, the split function of the scanners of ExecRunner.Run
ScanLines(data, atEOF) ==
  IF atEOF /\ Len(data) = 0 THEN NoToken
  ELSE IF \E i \in 1..Len(data) : data[i] = LF
       THEN LET i == First(data, {LF}) IN Token(i, dropCR(SubSeq(data, 1, i - 1)))
       ELSE IF atEOF THEN Token(Len(data), dropCR(data)) ELSE NoToken

Split(path, data, atEOF) ==
  IF path = "pty" THEN SplitPTY(data, atEOF) ELSE ScanLines(data, atEOF)

\* (mutant: the loop of readPTYOutput calls back for empty lines too)
CallsBackAlways(path, line) == TRUE

\* readPTYOutput calls back for non-empty lines only, readPipe for every line
CallsBack(path, line) == path = "pipe" \/ line # <<>>

scanOthers == <<schedVars, registry, now, records, st, reader, events, call>>

\* the reader goroutine starts on a stream that will carry input
ScanOpen(path, input) ==
  /\ scan.path = ""
  /\ scan' = [NoScan EXCEPT !.path = path, !.in = input, !.rest = input]
  /\ UNCHANGED scanOthers

\* Scan has no full token in its buffer: Read returns the next k bytes
ScanRead(k) ==
  /\ scan.path # "" /\ ~scan.eof
  /\ ~Split(scan.path, scan.buf, FALSE).has
  /\ k \in 1..Len(scan.rest)
  /\ scan' = [scan EXCEPT !.buf = @ \o SubSeq(scan.rest, 1, k),
                          !.rest = SubSeq(@, k + 1, Len(@))]
  /\ UNCHANGED scanOthers

\* Read returns io.EOF (the child is gone and the stream is closed)
ScanEOF ==
  /\ scan.path # "" /\ ~scan.eof
  /\ ~Split(scan.path, scan.buf, FALSE).has
  /\ scan.rest = <<>>
  /\ scan' = [scan EXCEPT !.eof = TRUE]
  /\ UNCHANGED scanOthers

\* Scan returns a token and the loop body calls onStdLine
ScanToken ==
  /\ scan.path # ""
  /\ LET r == Split(scan.path, scan.buf, scan.eof)
     IN /\ r.has
        /\ scan' = [scan EXCEPT !.buf = SubSeq(@, r.advance + 1, Len(@)),
                                !.out = IF CallsBack(scan.path, r.token)
                                        THEN Append(@, r.token) ELSE @]
  /\ UNCHANGED scanOthers

NextScan ==
  \/ \E path \in {"pty", "pipe"}, input \in ScanInputs : ScanOpen(path, input)
  \/ \E k \in 1..(MaxInput + Len(Repaint)) : ScanRead(k)
  \/ ScanEOF
  \/ ScanToken

SpecScan == InitThrottle /\ [][NextScan]_vars

\* the scanner has returned false: the stream ended and nothing is buffered
ScanDone == scan.path # "" /\ scan.eof /\ scan.buf = <<>>

\* the lines of an output in which LF, CR LF and a bare CR each end one line
RECURSIVE Frame(_, _)
Frame(data, line) ==
  IF data = <<>> THEN (IF line = <<>> THEN <<>> ELSE <<line>>)
  ELSE IF data[1] = CR /\ Len(data) > 1 /\ data[2] = LF
       THEN <<line>> \o Frame(SubSeq(data, 3, Len(data)), <<>>)
       ELSE IF data[1] \in {CR, LF}
            THEN <<line>> \o Frame(Tail(data), <<>>)
            ELSE Frame(Tail(data), Append(line, data[1]))

NonEmpty(line) == line # <<>>

\* C21: the PTY reader ends a line at LF, at CR LF and at a bare CR, however
\* the bytes arrive: the callback gets the non-empty lines of that framing in
\* order, so a CR LF pair never yields two lines, and the repainted progress
\* bar yields exactly its three lines.
C21_PTYFraming ==
  (ScanDone /\ scan.path = "pty") =>
     /\ scan.out = SelectSeq(Frame(scan.in, <<>>), NonEmpty)
     /\ scan.in = Repaint =>
           scan.out = << <<"downloading...">>, <<"downloading 50%">>, <<"downloading 100%">> >>

C21_Witness ==
  /\ ScanDone /\ scan.path = "pty" /\ scan.in = Repaint
  /\ scan.out = << <<"downloading...">>, <<"downloading 50%">>, <<"downloading 100%">> >>

\* C22: when the PTY cannot be had and Run goes through the pipe fallback, the
\* callback gets for the same child output the same lines as on the PTY path,
\* one line per bare-carriage-return repaint included.
C22_FallbackSameLines ==
  (ScanDone /\ scan.path = "pipe") =>
     scan.out = SelectSeq(Frame(scan.in, <<>>), NonEmpty)

\* C23: a Run call whose context was cancelled while its child had not exited
\* returns the cancellation error, and when it returns the child has
\* terminated and the reader has drained (so no line callback can follow).
\* The end of a ConPTY child is left open: closing the ConPTY is the library's.
C23_CancelTeardown ==
  \A n \in Runs :
    ( /\ n \in cancelled
      /\ drv[n].pc = "remove"
      /\ drv[n].path # ""
      /\ drv[n].child \notin {"exit0", "exit1"} ) =>
       /\ drv[n].err = ErrCanceled
       /\ ~drv[n].rd
       /\ drv[n].child # "running" \/ (goos = "windows" /\ drv[n].path = "pty")

\* C24: without a cancellation, a child that exits with a non-zero code makes
\* Run return an error that is neither nil nor the cancellation error and the
\* task ends failed (never stopped or success); a child that exits with code
\* zero makes Run return nil and the task ends success.
C24_ExitCode ==
  \A n \in Runs :
    (n \notin cancelled /\ drv[n].pc \in {"remove", "status", "cb", "tryRun"}) =>
       /\ drv[n].child = "exit1" =>
             /\ drv[n].err \notin {NoError, ErrCanceled}
             /\ drv[n].pc = "tryRun" =>
                   /\ Terminals(trace[n]) = <<"OnFailed">>
                   /\ tasks[drv[n].ID].Status = StatusFailed
       /\ drv[n].child = "exit0" =>
             /\ drv[n].err = NoError
             /\ drv[n].pc = "tryRun" =>
                   /\ Terminals(trace[n]) = <<"OnSuccess">>
                   /\ tasks[drv[n].ID].Status = StatusSuccess

C24_Witness ==
  \E n, m \in Runs :
    /\ n \notin cancelled /\ drv[n].pc = "tryRun" /\ drv[n].child = "exit1"
    /\ Terminals(trace[n]) = <<"OnFailed">>
    /\ m \notin cancelled /\ drv[m].pc = "tryRun" /\ drv[m].child = "exit0"
    /\ Terminals(trace[m]) = <<"OnSuccess">>

\* ======================================================================
\* Command line: DownloaderSvc.buildArgs and guessExtFromURL
\* ======================================================================
\* A Go string is a sequence of characters; a piece of text whose characters
\* play no part (a host name, a flag) stands as one character.
callOthers == <<schedVars, registry, now, records, st, reader, events, scan>>

\* unicode.ToLower on the letters of the extensions
Lower(c) ==
  CASE c = "M" -> "m" [] c = "U" -> "u" [] c = "P" -> "p" [] c = "F" -> "f"
    [] c = "L" -> "l" [] c = "V" -> "v" [] c = "K" -> "k" [] OTHER -> c

\* strings.ToLower
ToLower(s) == [i \in 1..Len(s) |-> Lower(s[i])]

\* strings.Contains
Contains(s, sub) ==
  \E i \in 1..(Len(s) - Len(sub) + 1) : SubSeq(s, i, i + Len(sub) - 1) = sub

ExtM3U8 == <<"m", "3", "u", "8">>
ExtMP4 == <<"m", "p", "4">>
ExtFLV == <<"f", "l", "v">>
ExtMKV == <<"m", "k", "v">>

\* the scan of guessExtFromURL without the lowering
GuessCaseSensitive(u) ==
  IF Contains(u, <<".">> \o ExtM3U8) THEN ExtM3U8
  ELSE IF Contains(u, <<".">> \o ExtMP4) THEN ExtMP4
  ELSE IF Contains(u, <<".">> \o ExtFLV) THEN ExtFLV
  ELSE IF Contains(u, <<".">> \o ExtMKV) THEN ExtMKV
  ELSE ExtMP4

\* guessExtFromURL (downloader.go 110-124)
guessExtFromURL(u) ==
  IF Contains(ToLower(u), <<".">> \o ExtM3U8) THEN ExtM3U8
  ELSE IF Contains(ToLower(u), <<".">> \o ExtMP4) THEN ExtMP4
  ELSE IF Contains(ToLower(u), <<".">> \o ExtFLV) THEN ExtFLV
  ELSE IF Contains(ToLower(u), <<".">> \o ExtMKV) THEN ExtMKV
  ELSE ExtMP4

\* filepath.FromSlash: on windows every slash becomes a backslash
FromSlash(os, path) ==
  [i \in 1..Len(path) |-> IF os = "windows" /\ path[i] = "/" THEN "\\" ELSE path[i]]

\* filepath.Join of two elements free of "." and "..": the non-empty ones
\* joined by a separator, then cleaned to the platform's separator
Join(os, a, b) ==
  FromSlash(os, IF a = <<>> THEN b ELSE IF b = <<>> THEN a ELSE a \o <<"/">> \o b)

\* a pushKV that forgets the value
pushKeys(keys, val) == keys

\* pushKV: every key followed by the value
RECURSIVE pushKV(_, _)
pushKV(keys, val) ==
  IF keys = <<>> THEN <<>> ELSE <<keys[1], val>> \o pushKV(Tail(keys), val)

AutoPostfix == <<"@@AUTO@@">>

\* one case of the switch of buildArgs: the tokens it appends for a key
ArgsOf(key, spec, p, os) ==
  CASE key = "url" -> spec.ArgsName \o <<p.URL>>
    [] key = "localDir" ->
         pushKV(spec.ArgsName,
                IF p.Folder # <<>> THEN Join(os, p.LocalDir, p.Folder) ELSE p.LocalDir)
    [] key = "name" ->
         pushKV(spec.ArgsName,
                IF spec.Postfix = AutoPostfix THEN p.Name \o <<".">> \o guessExtFromURL(p.URL)
                ELSE p.Name \o spec.Postfix)
    [] key = "deleteSegments" ->
         pushKV(spec.ArgsName, IF p.DeleteSegments THEN <<"true">> ELSE <<"false">>)
    [] key = "proxy" -> IF p.Proxy # <<>> THEN pushKV(spec.ArgsName, p.Proxy) ELSE <<>>
    [] key = "__common__" -> spec.ArgsName
    [] OTHER -> <<>>

\* buildArgs, with order the order in which range yields the keys of s.Args
RECURSIVE buildArgs(_, _, _, _)
buildArgs(p, args, order, os) ==
  IF order = <<>> THEN <<>>
  ELSE ArgsOf(order[1], args[order[1]], p, os) \o buildArgs(p, args, Tail(order), os)

\* ---- scenario S4 ----
NewArgSpec(names, postfix) == [ArgsName |-> names, Postfix |-> postfix]

S4Keys == {"url", "localDir", "name", "deleteSegments", "__common__"}

S4Args ==
  [key \in S4Keys |->
     CASE key = "url" -> NewArgSpec(<< <<"-u">> >>, <<>>)
       [] key = "localDir" -> NewArgSpec(<< <<"-d">> >>, <<>>)
       [] key = "name" -> NewArgSpec(<< <<"-n">> >>, AutoPostfix)
       [] key = "deleteSegments" -> NewArgSpec(<< <<"--del">> >>, <<>>)
       [] OTHER -> NewArgSpec(<< <<"--quiet">> >>, <<>>)]

S4URL == <<"http://x/y", ".", "m", "3", "u", "8">>

S4Params ==
  [URL |-> S4URL, Name |-> <<"movie">>, Folder |-> <<"films">>,
   LocalDir |-> <<"/", "out">>, DeleteSegments |-> TRUE, Proxy |-> <<>>]

\* the orders in which a Go map of these keys can be ranged over
Orders(K) ==
  {f \in [1..Cardinality(K) -> K] : \A i, j \in 1..Cardinality(K) : f[i] = f[j] => i = j}

CallBuildArgs(order) ==
  /\ call.fn = ""
  /\ call' = [fn |-> "buildArgs", in |-> order,
              out |-> buildArgs(S4Params, S4Args, order, goos)]
  /\ UNCHANGED callOthers

NextArgs == \E order \in Orders(S4Keys) : CallBuildArgs(order)

SpecArgs == Init /\ [][NextArgs]_vars

\* how often a token occurs in an argv
Count(argv, tok) == Cardinality({i \in 1..Len(argv) : argv[i] = tok})

SameMultiset(a, b) ==
  /\ Len(a) = Len(b)
  /\ \A i \in 1..Len(a) : Count(a, a[i]) = Count(b, a[i])

Follows(argv, flag, val) ==
  \E i \in 1..(Len(argv) - 1) : argv[i] = flag /\ argv[i + 1] = val

S4Name == <<"movie", ".", "m", "3", "u", "8">>

\* C25: in scenario S4 the argv of buildArgs is, as a multiset, exactly
\* {-u, http://x/y.m3u8, -d, /out/films, -n, movie.m3u8, --del, true, --quiet},
\* each flag immediately followed by its value, in every iteration order.
C25_S4Argv ==
  call.fn = "buildArgs" =>
     /\ SameMultiset(call.out,
                     << <<"-u">>, S4URL, <<"-d">>, <<"/", "out", "/", "films">>,
                        <<"-n">>, S4Name, <<"--del">>, <<"true">>, <<"--quiet">> >>)
     /\ Follows(call.out, <<"-u">>, S4URL)
     /\ Follows(call.out, <<"-d">>, <<"/", "out", "/", "films">>)
     /\ Follows(call.out, <<"-n">>, S4Name)
     /\ Follows(call.out, <<"--del">>, <<"true">>)

\* C25 as it holds: the directory token is LocalDir and Folder joined with the
\* separator of the platform.
C25_S4ArgvPlatform ==
  call.fn = "buildArgs" =>
     LET dir == IF goos = "windows" THEN <<"\\", "out", "\\", "films">>
                ELSE <<"/", "out", "/", "films">>
     IN /\ SameMultiset(call.out,
                        << <<"-u">>, S4URL, <<"-d">>, dir, <<"-n">>, S4Name,
                           <<"--del">>, <<"true">>, <<"--quiet">> >>)
        /\ Follows(call.out, <<"-u">>, S4URL)
        /\ Follows(call.out, <<"-d">>, dir)
        /\ Follows(call.out, <<"-n">>, S4Name)
        /\ Follows(call.out, <<"--del">>, <<"true">>)

C25_Witness ==
  /\ call.fn = "buildArgs" /\ goos = "windows"
  /\ call.in[1] = "__common__" /\ call.in[2] = "name"
  /\ call.out[1] = <<"--quiet">> /\ call.out[3] = S4Name

\* ---- guessExtFromURL on its own ----
\* the pieces URLs are put together from
UrlWords ==
  { <<"http://x/y">>, <<".">>, ExtM3U8, <<"M", "3", "U", "8">>, ExtMP4,
    <<"F", "l", "v">>, <<"m", "K", "v">>, <<"m">> }

RECURSIVE Flatten(_)
Flatten(ws) == IF ws = <<>> THEN <<>> ELSE ws[1] \o Flatten(Tail(ws))

URLs == {Flatten(ws) : ws \in SeqsUpTo(UrlWords, MaxWords)}

Exts == {ExtM3U8, ExtMP4, ExtFLV, ExtMKV}

CallGuess(u) ==
  /\ call.fn = ""
  /\ call' = [fn |-> "guessExtFromURL", in |-> u, out |-> guessExtFromURL(u)]
  /\ UNCHANGED callOthers

\* the guess applied to its own result
CallGuessAgain ==
  /\ call.fn = "guessExtFromURL"
  /\ call' = [fn |-> "guessExtFromURL", in |-> call.out, out |-> guessExtFromURL(call.out)]
  /\ UNCHANGED callOthers

NextExt ==
  \/ \E u \in URLs : CallGuess(u)
  \/ CallGuessAgain

SpecExt == InitThrottle /\ [][NextExt]_vars

\* the guess is one of the four extensions and ignores letter case
GuessWellFormed ==
  call.fn = "guessExtFromURL" =>
     /\ call.out \in Exts
     /\ \A u \in URLs : ToLower(u) = ToLower(call.in) => guessExtFromURL(u) = call.out

\* C26: the extension guess g is idempotent and case-insensitive: g(g(u)) =
\* g(u), g(u) = g(u') whenever u and u' differ only in letter case, and the
\* result is always one of m3u8, mp4, flv, mkv.
C26_GuessIdempotent ==
  /\ []GuessWellFormed
  /\ [][CallGuessAgain => call'.out = call.out]_vars

\* C26 as it holds: case-insensitive, one of the four, and the guess of a
\* guess is mp4 (an extension without its dot matches no pattern).
C26_GuessOfGuess ==
  /\ []GuessWellFormed
  /\ [][CallGuessAgain => call'.out = ExtMP4]_vars

C26_Witness ==
  /\ call.fn = "guessExtFromURL" /\ call.in = ExtM3U8 /\ call.out = ExtMP4

\* ======== the percentage of one run, progress line by progress line ========
\* the percentages the child's progress lines may carry: the parser stores
\* whatever number percentReg captured
ChildPercents == {30, 50, 100}

PctRunStart(n) ==
  \E path \in {"pty", "pipe"}, lines \in 0..MaxPctLines : RunStart(n, path, lines)

\* a progress line the throttle lets through: the OnProgress closure of
\* execute stores e.Percent in the task record
PctLine(n) ==
  \E v \in ChildPercents : ReadLine(n, [progress |-> TRUE, Percent |-> v])

PctExit(n) ==
  \E code \in {"exit0", "exit1"} : ChildExit(n, code)

NextPercent ==
  \/ StopEnqueue
  \/ \E n \in Runs : Driver(n)
  \/ \E n \in Runs : PctRunStart(n)
  \/ \E n \in Runs : PctLine(n)
  \/ \E n \in Runs : ReaderEnd(n)
  \/ \E n \in Runs : PctExit(n)
  \/ \E n \in Runs : RunCmdDone(n)
  \/ \E n \in Runs : RunDrained(n)
  \/ \E n \in Runs : PipeDone(n)

SpecPercent == InitThrottle /\ [][NextPercent]_vars

NonDecreasing(s) == \A i, j \in 1..Len(s) : i <= j => s[i] <= s[j]

\* the run has ended in success and its record holds the outcome
EndedInSuccess(n) ==
  /\ drv[n].pc = "tryRun"
  /\ Terminals(trace[n]) = <<"OnSuccess">>
  /\ drv[n].ID \in DOMAIN tasks

\* C27: in every run that ends in success the Percent values stored in the
\* task record, in the order they were stored and ending with the value the
\* record holds after the run, never decrease, and that last value is 100.
C27_PercentMonotone ==
  \A n \in Runs :
    EndedInSuccess(n) =>
      /\ NonDecreasing(drv[n].pcts \o <<tasks[drv[n].ID].Percent>>)
      /\ tasks[drv[n].ID].Percent = 100

\* ======== packages/sdk: TaskStreamEventEmitter over an EventSource ========
\* call.in: the events the source has dispatched to the emitter's listeners,
\* call.out: what the emitter has emitted to its own listeners, in order
TaskEventNames == {"download-start", "download-success", "download-stop", "download-failed"}

\* JavaScript values a payload text can parse to
JsNull == [t |-> "null", v |-> "null"]
JsObject(id) == [t |-> "object", v |-> id]
JsArray == [t |-> "array", v |-> "[]"]
JsNumber(d) == [t |-> "number", v |-> d]
JsBool(b) == [t |-> "boolean", v |-> b]
JsString(x) == [t |-> "string", v |-> x]

\* the texts event.data is drawn from
DataTexts ==
  {"", "not-json", "{", "{\"id\":\"task-1\"}", "[]", "null", "0", "1", "false", "true",
   "\"\"", "\"a\""}

\* event.data: a string, or something that is not a string (undefined)
SseData == {[isString |-> TRUE, text |-> x] : x \in DataTexts}
             \cup {[isString |-> FALSE, text |-> ""]}

\* JSON.parse: the value, or a SyntaxError
JSONParse(text) ==
  CASE text = "{\"id\":\"task-1\"}" -> [ok |-> TRUE, val |-> JsObject("task-1")]
    [] text = "[]" -> [ok |-> TRUE, val |-> JsArray]
    [] text = "null" -> [ok |-> TRUE, val |-> JsNull]
    [] text = "0" -> [ok |-> TRUE, val |-> JsNumber("0")]
    [] text = "1" -> [ok |-> TRUE, val |-> JsNumber("1")]
    [] text = "false" -> [ok |-> TRUE, val |-> JsBool("false")]
    [] text = "true" -> [ok |-> TRUE, val |-> JsBool("true")]
    [] text = "\"\"" -> [ok |-> TRUE, val |-> JsString("")]
    [] text = "\"a\"" -> [ok |-> TRUE, val |-> JsString("a")]
    [] OTHER -> [ok |-> FALSE, val |-> JsNull]

\* ToBoolean of a parsed value
Truthy(val) == val \notin {JsNull, JsNumber("0"), JsBool("false"), JsString("")}

ErrorEventOf(type) ==
  [name |-> "error", payload |-> JsString("Failed to parse SSE payload for \"" \o type \o "\"")]

\* safeParse with the guard on event.data left out
SafeParseUnguarded(event) ==
  LET p == JSONParse(event.data.text)
  IN  IF p.ok THEN [payload |-> p.val, emits |-> <<>>]
      ELSE [payload |-> JsNull, emits |-> <<ErrorEventOf(event.type)>>]

\* safeParse: the payload (null when there is none) and what it emitted
safeParse(event) ==
  IF ~event.data.isString \/ event.data.text = ""
  THEN [payload |-> JsNull, emits |-> <<>>]
  ELSE LET p == JSONParse(event.data.text)
       IN  IF p.ok THEN [payload |-> p.val, emits |-> <<>>]
           ELSE [payload |-> JsNull, emits |-> <<ErrorEventOf(event.type)>>]

\* the listener attachSourceListeners registers for a task event name
OnTaskEvent(event) ==
  LET r == safeParse(event)
  IN  r.emits \o (IF Truthy(r.payload)
                  THEN <<[name |-> event.type, payload |-> r.payload]>>
                  ELSE <<>>)

\* the source dispatches one task event to the emitter
SseDispatch(type, data) ==
  /\ call.fn \in {"", "sse"}
  /\ Len(call.in) < MaxSse
  /\ LET event == [type |-> type, data |-> data]
     IN  call' = [fn |-> "sse", in |-> Append(call.in, event),
                  out |-> call.out \o OnTaskEvent(event)]
  /\ UNCHANGED callOthers

NextSse == \E type \in TaskEventNames, data \in SseData : SseDispatch(type, data)

SpecSse == InitThrottle /\ [][NextSse]_vars

\* event.data is a text of the JSON grammar
ValidJSON(data) == data.isString /\ JSONParse(data.text).ok

\* what the emitter is said to emit for one event
SaidEmits(event) ==
  IF ValidJSON(event.data)
  THEN <<[name |-> event.type, payload |-> JSONParse(event.data.text).val]>>
  ELSE <<ErrorEventOf(event.type)>>

\* what the emitter emits for one event: nothing for data that is empty or not
\* a string, one error event for any other text JSON.parse rejects, the
\* parsed payload under the same name when it is truthy, nothing when the
\* text parses to null, 0, false or ""
TrulyEmits(event) ==
  IF ~event.data.isString \/ event.data.text = "" THEN <<>>
  ELSE IF ~ValidJSON(event.data) THEN <<ErrorEventOf(event.type)>>
  ELSE IF JSONParse(event.data.text).val \in {JsNull, JsNumber("0"), JsBool("false"), JsString("")}
       THEN <<>>
  ELSE <<[name |-> event.type, payload |-> JSONParse(event.data.text).val]>>

RECURSIVE EmitsOfAll(_, _)
EmitsOfAll(F(_), evs) ==
  IF evs = <<>> THEN <<>> ELSE F(Head(evs)) \o EmitsOfAll(F, Tail(evs))

\* C28 as stated: every task event with valid JSON data is re-emitted under
\* its name with the parsed payload, and every task event whose data is not
\* valid JSON yields exactly one error event and no task event.
C28_ReEmitOrError ==
  call.fn = "sse" => call.out = EmitsOfAll(SaidEmits, call.in)

\* C28, amended: data that is a non-empty string and not valid JSON yields
\* exactly one error event and no task event; valid JSON that parses to a
\* truthy value is re-emitted under the same name with the parsed payload;
\* empty or non-string data, and JSON that parses to null, 0, false or "",
\* yield no event at all.
C28_ReEmitTruthy ==
  call.fn = "sse" => call.out = EmitsOfAll(TrulyEmits, call.in)

C28_Witness ==
  /\ call.fn = "sse"
  /\ call.in = << [type |-> "download-start", data |-> [isString |-> TRUE, text |-> "not-json"]],
                  [type |-> "download-failed",
                   data |-> [isString |-> TRUE, text |-> "{\"id\":\"task-1\"}"]] >>
  /\ call.out = << ErrorEventOf("download-start"),
                   [name |-> "download-failed", payload |-> JsObject("task-1")] >>

\* ======== what a Stop call writes ========
\* a step of a Stop call: the lookup under the mutex, or cancel() and the return
StopLooksUp == stopCall = NoStop /\ stopCall' # NoStop

StopReturnsNil == stopCall # NoStop /\ stopCall' = NoStop

\* the record of id becomes stopped in this step
BecomesStopped(id) ==
  /\ id \in DOMAIN tasks'
  /\ tasks'[id].Status = StatusStopped
  /\ id \notin DOMAIN tasks \/ tasks[id].Status # StatusStopped

\* line 182 of execute, run for id by a driver whose Download returned the
\* cancellation error
DriverStops(id) ==
  \E n \in Runs :
    /\ drv[n].pc = "status" /\ drv'[n].pc = "cb"
    /\ drv[n].ID = id
    /\ drv[n].err = ErrCanceled

\* C29: a Stop call on an active id only invokes the cancel handle: its steps
\* leave the task records (so the Status, downloading, is what it was), the
\* active set, the pending queue and MaxRunner as they were, and a record
\* becomes stopped only in a step of the task's driver.
C29_StopOnlyCancels ==
  [][ /\ (StopLooksUp \/ StopReturnsNil) =>
            /\ tasks' = tasks
            /\ active' = active
            /\ queue' = queue
            /\ maxRunner' = maxRunner
      /\ StopReturnsNil =>
            /\ cancelled' = Cancel(cancelled, stopCall.h)
            /\ ret' = [op |-> "Stop", val |-> NoError]
      /\ \A id \in TaskIDs : BecomesStopped(id) => DriverStops(id) ]_vars

\* Stop has returned nil for a downloading task, which is still downloading
\* and active, with its context cancelled
C29_Witness ==
  /\ ret = [op |-> "Stop", val |-> NoError]
  /\ \E n \in Runs :
       /\ n \in cancelled
       /\ drv[n].pc = "download"
       /\ drv[n].ID \in DOMAIN active
       /\ drv[n].ID \in DOMAIN tasks
       /\ tasks[drv[n].ID].Status = StatusDownloading

\* ======== LineParser.Parse and the dispatcher's use of it ========
\* a console line is a sequence of words; the five regular expressions of a
\* schema are taken to look for these words
ErrorWord == "ERROR"
LiveWord == "live"
StartWord == "start"
PercentWords == {"0%", "50%"}
SpeedWords == {"1MB/s"}
LineWords == {ErrorWord, LiveWord, StartWord, "x"} \cup PercentWords \cup SpeedWords

ConsoleLines == SeqsUpTo(LineWords, MaxLineWords)

\* regexp.MatchString
MatchString(word, line) == \E i \in 1..Len(line) : line[i] = word

\* regexp.FindStringSubmatch: the capture of the leftmost match, <<>> for none
FindStringSubmatch(W, line) ==
  LET hits == {i \in 1..Len(line) : line[i] \in W}
  IN  IF hits = {} THEN <<>>
      ELSE <<line[CHOOSE i \in hits : \A j \in hits : i <= j]>>

\* strconv.ParseFloat of a captured percentage
ParseFloat(w) == IF w = "50%" THEN 50 ELSE 0

NewParseState == [Ready |-> FALSE, Percent |-> 0, Speed |-> "", IsLive |-> FALSE]

\* Parse with the live check made before the error check
ParseLiveFirst(line, state) ==
  LET live == [state EXCEPT !.IsLive = @ \/ MatchString(LiveWord, line)]
  IN  IF MatchString(ErrorWord, line)
      THEN [event |-> "", errMsg |-> line, state |-> live]
      ELSE [event |-> "", errMsg |-> <<>>, state |-> live]

\* Parse: the event, the error message (<<>> for "") and the state it leaves
Parse(line, state) ==
  IF MatchString(ErrorWord, line)
  THEN [event |-> "", errMsg |-> line, state |-> state]
  ELSE
    LET live == [state EXCEPT !.IsLive = @ \/ MatchString(LiveWord, line)]
        pm == FindStringSubmatch(PercentWords, line)
        sm == FindStringSubmatch(SpeedWords, line)
        pct == IF pm # <<>> THEN [live EXCEPT !.Percent = ParseFloat(pm[1])] ELSE live
        spd == IF sm # <<>> THEN [pct EXCEPT !.Speed = sm[1]] ELSE pct
    IN  IF ~state.Ready /\ MatchString(StartWord, line)
        THEN [event |-> "ready", errMsg |-> <<>>, state |-> live]
        ELSE IF ~state.Ready /\ (pm # <<>> \/ sm # <<>>)
        THEN [event |-> "ready", errMsg |-> <<>>, state |-> [spd EXCEPT !.Ready = TRUE]]
        ELSE [event |-> "", errMsg |-> <<>>, state |-> spd]

\* the onLine closure of Download for one line, admit being the throttle's
\* answer: the state it leaves and the hooks it calls.  It returns nothing and
\* holds no cancel handle.
OnLineHooks(line, state, admit) ==
  LET r == Parse(line, state)
      s == IF r.event = "ready" THEN [r.state EXCEPT !.Ready = TRUE] ELSE r.state
  IN  [state |-> s,
       errMsg |-> r.errMsg,
       event |-> r.event,
       hooks |-> <<"OnMessage">>
                 \o (IF r.event = "ready" THEN <<"OnProgress">> ELSE <<>>)
                 \o (IF s.Ready /\ (s.Percent > 0 \/ s.Speed # "") /\ admit
                     THEN <<"OnProgress">> ELSE <<>>)]

\* the first line of a run: the state is the one Download made
ParseFirst(line, admit) ==
  /\ call.fn = ""
  /\ call' = [fn |-> "Parse", in |-> <<line, NewParseState>>,
              out |-> OnLineHooks(line, NewParseState, admit)]
  /\ UNCHANGED callOthers

\* a later line: the state is the one the line before left
ParseMore(line, admit) ==
  /\ call.fn = "Parse"
  /\ call' = [fn |-> "Parse", in |-> <<line, call.out.state>>,
              out |-> OnLineHooks(line, call.out.state, admit)]
  /\ UNCHANGED callOthers

NextParse ==
  \/ \E line \in ConsoleLines, admit \in BOOLEAN : ParseFirst(line, admit)
  \/ \E line \in ConsoleLines, admit \in BOOLEAN : ParseMore(line, admit)

SpecParse == InitThrottle /\ [][NextParse]_vars

\* C30: for a line that matches errorReg, Parse returns event "" and the line
\* as errMsg and leaves Ready, Percent, Speed and IsLive as they were, whatever
\* else the line matches; the dispatcher calls no terminal hook for it.
C30_ErrorLineLeavesState ==
  (call.fn = "Parse" /\ MatchString(ErrorWord, call.in[1])) =>
     /\ call.out.event = ""
     /\ call.out.errMsg = call.in[1]
     /\ call.out.state = call.in[2]
     /\ \A i \in 1..Len(call.out.hooks) : call.out.hooks[i] \in {"OnMessage", "OnProgress"}

\* an error line that also says live and carries a percentage, parsed in a
\* state with a different percentage and IsLive false
C30_Witness ==
  /\ call.fn = "Parse"
  /\ call.in[1] = <<ErrorWord, "50%">>
  /\ call.in[2] = [Ready |-> TRUE, Percent |-> 0, Speed |-> "1MB/s", IsLive |-> FALSE]
  /\ call.out.state = call.in[2]
  /\ call.out.errMsg = <<ErrorWord, "50%">>

\* ======== the onLine closure of Download, statement by statement ========
\* reader[id][s]: the reader goroutine of stream s with the lines the runner
\* has handed to onLine so far (the last one being processed unless pc is
\* "scan" or "eof"); events[id]: what the callbacks received, each event with
\* the stream and the number of the line it was derived from
Space == " "

\* the lines the child prints
OnLineInputs ==
  { <<Space, StartWord, Space>>, <<"50%", Space>>, <<ErrorWord, "50%">> }

\* strings.TrimSpace
RECURSIVE TrimLeft(_)
TrimLeft(line) ==
  IF line # <<>> /\ Head(line) = Space THEN TrimLeft(Tail(line)) ELSE line

RECURSIVE TrimRight(_)
TrimRight(line) ==
  IF line # <<>> /\ line[Len(line)] = Space
  THEN TrimRight(SubSeq(line, 1, Len(line) - 1))
  ELSE line

\* (mutant: the line is passed on as it came)
Untrimmed(line) == line

TrimSpace(line) == TrimRight(TrimLeft(line))

\* the line reader s is processing
CurrentLine(id, s) == reader[id][s].lines[Len(reader[id][s].lines)]

\* the tracker keeps percentages in tenths of a percent
Tenths(percent) == 10 * percent

OnLineEvent(id, s, type, message) ==
  [s |-> s, k |-> Len(reader[id][s].lines), Type |-> type, Message |-> message,
   Percent |-> st[id].Percent]

\* Download up to runner.Run: st := &parseState{}, the reader goroutines start
OlRun(id, path) ==
  /\ Reading(id) = {}
  /\ st' = [st EXCEPT ![id] = NewParseState]
  /\ reader' = [reader EXCEPT ![id] =
                  [s \in Streams |->
                     IF s \in StreamsOf(path)
                     THEN [pc |-> "scan", k |-> 0, ok |-> FALSE, lines |-> <<>>]
                     ELSE NoReader]]
  /\ UNCHANGED <<now, records, events>>

\* the runner's reader of stream s calls onLine(raw)
OlDeliver(id, s, raw) ==
  /\ reader[id][s].pc = "scan"
  /\ Len(reader[id][s].lines) < MaxOnLines
  /\ reader' = [reader EXCEPT ![id][s].pc = "message",
                              ![id][s].lines = Append(@, raw)]
  /\ UNCHANGED <<now, records, st, events>>

\* lines 176-181: line = strings.TrimSpace(line); cb.OnMessage(...)
OlMessage(id, s) ==
  /\ reader[id][s].pc = "message"
  /\ events' = [events EXCEPT ![id] =
                  Append(@, OnLineEvent(id, s, "message", TrimSpace(CurrentLine(id, s))))]
  /\ reader' = [reader EXCEPT ![id][s].pc = "parse"]
  /\ UNCHANGED <<now, records, st>>

\* line 184: evt, errStr := lp.parse(line, st)
OlParse(id, s) ==
  /\ reader[id][s].pc = "parse"
  /\ LET r == Parse(TrimSpace(CurrentLine(id, s)), st[id])
     IN  /\ st' = [st EXCEPT ![id] = r.state]
         /\ reader' = [reader EXCEPT ![id][s].pc =
                         IF r.event = "ready" THEN "setReady" ELSE "gate"]
  /\ UNCHANGED <<now, records, events>>

\* line 193: st.ready = true
OlSetReady(id, s) ==
  /\ reader[id][s].pc = "setReady"
  /\ st' = [st EXCEPT ![id].Ready = TRUE]
  /\ reader' = [reader EXCEPT ![id][s].pc = "emitReady"]
  /\ UNCHANGED <<now, records, events>>

\* lines 197-203: cb.OnProgress(ProgressEvent{Type: "ready"})
OlEmitReady(id, s) ==
  /\ reader[id][s].pc = "emitReady"
  /\ events' = [events EXCEPT ![id] = Append(@, OnLineEvent(id, s, "ready", <<>>))]
  /\ reader' = [reader EXCEPT ![id][s].pc = "gate"]
  /\ UNCHANGED <<now, records, st>>

\* lines 207-208: st.ready && (st.percent > 0 || st.speed != "") && shouldUpdate
OlGate(id, s) ==
  /\ reader[id][s].pc = "gate"
  /\ LET ok == /\ st[id].Ready
               /\ st[id].Percent > 0 \/ st[id].Speed # ""
               /\ shouldUpdate(records, id, now, Tenths(st[id].Percent), st[id].Speed)
     IN  reader' = [reader EXCEPT ![id][s].pc = IF ok THEN "emit" ELSE "scan",
                                 ![id][s].ok = ok]
  /\ UNCHANGED <<now, records, st, events>>

\* lines 213-219: cb.OnProgress(ProgressEvent{Type: "progress", ...})
OlEmit(id, s) ==
  /\ reader[id][s].pc = "emit"
  /\ events' = [events EXCEPT ![id] = Append(@, OnLineEvent(id, s, "progress", <<>>))]
  /\ reader' = [reader EXCEPT ![id][s].pc = "update"]
  /\ UNCHANGED <<now, records, st>>

\* line 220: d.tracker.update(p.ID, st.percent, st.speed)
OlUpdate(id, s) ==
  /\ reader[id][s].pc = "update"
  /\ records' = update(records, id, now, Tenths(st[id].Percent), st[id].Speed)
  /\ reader' = [reader EXCEPT ![id][s].pc = "scan"]
  /\ UNCHANGED <<now, st, events>>

NextOnLine ==
  \/ (\E path \in {"pty", "pipe"} : OlRun(ThrottleID, path)) /\ UNCHANGED queueVars
  \/ (\E s \in Streams, raw \in OnLineInputs : OlDeliver(ThrottleID, s, raw))
        /\ UNCHANGED queueVars
  \/ (\E s \in Streams : OlMessage(ThrottleID, s)) /\ UNCHANGED queueVars
  \/ (\E s \in Streams : OlParse(ThrottleID, s)) /\ UNCHANGED queueVars
  \/ (\E s \in Streams : OlSetReady(ThrottleID, s)) /\ UNCHANGED queueVars
  \/ (\E s \in Streams : OlEmitReady(ThrottleID, s)) /\ UNCHANGED queueVars
  \/ (\E s \in Streams : OlGate(ThrottleID, s)) /\ UNCHANGED queueVars
  \/ (\E s \in Streams : OlEmit(ThrottleID, s)) /\ UNCHANGED queueVars
  \/ (\E s \in Streams : OlUpdate(ThrottleID, s)) /\ UNCHANGED queueVars
  \/ (\E s \in Streams : ReaderEof(ThrottleID, s)) /\ UNCHANGED queueVars
  \/ Tick(ThrottleMs) /\ UNCHANGED queueVars

SpecOnLine == InitThrottle /\ [][NextOnLine]_vars

\* m is line without the white space at its two ends
IsTrimOf(m, line) ==
  /\ m = <<>> \/ (m[1] # Space /\ m[Len(m)] # Space)
  /\ \E i, j \in 0..Len(line) :
       line = [a \in 1..i |-> Space] \o m \o [b \in 1..j |-> Space]

\* the places of the events of type T derived from line j of stream s
EventsOf(id, s, j, T) ==
  {i \in 1..Len(events[id]) :
     events[id][i].s = s /\ events[id][i].k = j /\ events[id][i].Type \in T}

\* the lines of stream s whose message call has been made
Messaged(id, s) ==
  IF reader[id][s].pc = "none" THEN {}
  ELSE {j \in 1..Len(reader[id][s].lines) :
          j < Len(reader[id][s].lines) \/ reader[id][s].pc # "message"}

\* C31: every line handed to onLine yields exactly one message event, which
\* carries the line trimmed of white space at both ends and comes before every
\* ready or progress event derived from the same line, whatever the throttle
\* decides.
C31_OneMessagePerLine ==
  \A s \in Streams :
    /\ \A j \in Messaged(ThrottleID, s) :
         /\ Cardinality(EventsOf(ThrottleID, s, j, {"message"})) = 1
         /\ \A i \in EventsOf(ThrottleID, s, j, {"message"}) :
              /\ IsTrimOf(events[ThrottleID][i].Message, reader[ThrottleID][s].lines[j])
              /\ \A e \in EventsOf(ThrottleID, s, j, {"ready", "progress"}) : i < e
    /\ \A i \in 1..Len(events[ThrottleID]) :
         events[ThrottleID][i].s = s => events[ThrottleID][i].k \in Messaged(ThrottleID, s)

\* a line with white space at both ends was trimmed, and a line
\* the throttle suppressed still gave its message
C31_Witness ==
  /\ \E i \in 1..Len(events[ThrottleID]) :
       /\ events[ThrottleID][i].Type = "message"
       /\ events[ThrottleID][i].Message = <<StartWord>>
       /\ reader[ThrottleID][events[ThrottleID][i].s].lines[events[ThrottleID][i].k]
            = <<Space, StartWord, Space>>
  /\ \E s \in Streams :
       /\ reader[ThrottleID][s].pc = "scan"
       /\ Len(reader[ThrottleID][s].lines) = 2
       /\ ~reader[ThrottleID][s].ok
       /\ reader[ThrottleID][s].lines[2] = <<"50%", Space>>
       /\ st[ThrottleID].Ready
       /\ EventsOf(ThrottleID, s, 2, {"message"}) # {}
       /\ EventsOf(ThrottleID, s, 2, {"progress"}) = {}

\* reader s is inside an invocation of onLine
InOnLine(id, s) ==
  reader[id][s].pc \in {"message", "parse", "setReady", "emitReady", "gate", "emit", "update"}

\* C33: within one Run call no two invocations of the line callback overlap,
\* on the PTY path and on the pipe path alike, so the parse state of the
\* Download call is never used by two threads at once.
C33_CallbackSequential ==
  \A s, t \in Streams :
    (InOnLine(ThrottleID, s) /\ InOnLine(ThrottleID, t)) => s = t

\* the places of the events of type T of the call
TypedEvents(id, T) == {i \in 1..Len(events[id]) : events[id][i].Type \in T}

\* C34: within one Download call Ready never goes back to false, at most one
\* ready event is emitted, it comes before every progress event of the call,
\* and no progress event is emitted while Ready is false.
C34_ReadyOnceAndFirst ==
  /\ [](/\ Cardinality(TypedEvents(ThrottleID, {"ready"})) <= 1
        /\ \A p \in TypedEvents(ThrottleID, {"progress"}) :
              \E r \in TypedEvents(ThrottleID, {"ready"}) : r < p)
  /\ [][ /\ (Reading(ThrottleID) # {} /\ st[ThrottleID].Ready) => st'[ThrottleID].Ready
         /\ (TypedEvents(ThrottleID, {"progress"})' # TypedEvents(ThrottleID, {"progress"}))
               => st[ThrottleID].Ready ]_vars

\* ======== Download's return and the throttle record of its task ========
\* call: the Download call of the task, out being what it has returned
returnOthers == <<schedVars, registry, scan>>

Returned == call.fn = "Download" /\ call.out # <<>>

\* Download reaches runner.Run
RtRun(path) ==
  /\ call.fn = ""
  /\ RunReaders(ThrottleID, path)
  /\ call' = [fn |-> "Download", in |-> <<path>>, out |-> <<>>]
  /\ UNCHANGED returnOthers

\* the steps of a reader goroutine, which Run may or may not have waited for
RtReader ==
  /\ \/ \E s \in Streams, percent \in LinePercents, speed \in LineSpeeds :
          reader[ThrottleID][s].k < MaxThrLines /\ onLine(ThrottleID, s, percent, speed)
     \/ \E s \in Streams : OnProgressEvent(ThrottleID, s)
     \/ \E s \in Streams : TrackerUpdate(ThrottleID, s)
     \/ \E s \in Streams : ReaderEof(ThrottleID, s)
  /\ UNCHANGED <<returnOthers, call>>

\* Run returns after its readers have ended (the pipe path, the ConPTY path,
\* the PTY path when the child exits), then d.tracker.remove(p.ID) and return
RtDrainedReturn(err) ==
  /\ call.fn = "Download" /\ call.out = <<>>
  /\ \A s \in Reading(ThrottleID) : reader[ThrottleID][s].pc = "eof"
  /\ records' = remove(records, ThrottleID)
  /\ call' = [call EXCEPT !.out = <<err>>]
  /\ UNCHANGED <<returnOthers, now, st, reader, events>>

\* runWithPTY on unix, ctx.Done(): the PTY is closed and Run returns
\* ctx.Err() without waiting for the reader; then d.tracker.remove(p.ID)
RtCancelledReturn ==
  /\ call.fn = "Download" /\ call.out = <<>>
  /\ call.in = <<"pty">>
  /\ AfterCtxDone(goos) = "remove"
  /\ records' = remove(records, ThrottleID)
  /\ call' = [call EXCEPT !.out = <<ErrCanceled>>]
  /\ UNCHANGED <<returnOthers, now, st, reader, events>>

RtTick == Tick(TickMs) /\ UNCHANGED <<returnOthers, call>>

NextReturn ==
  \/ \E path \in {"pty", "pipe"} : RtRun(path)
  \/ RtReader
  \/ \E err \in {NoError, ErrExit, ErrCanceled} : RtDrainedReturn(err)
  \/ RtCancelledReturn
  \/ RtTick

\* either platform, one Download call
InitReturn == Init /\ maxRunner = 1

SpecReturn == InitReturn /\ [][NextReturn]_vars

\* C32: once Download has returned, by success, failure or cancellation, the
\* throttle holds no record for the task id, and the run creates none later.
C32_NoRecordAfterReturn ==
  Returned => ThrottleID \notin DOMAIN records

\* ======== the pending queue drains ========
\* Every Download call returns, the callers make at most MaxFresh Enqueue
\* calls, and every goroutine that can take a step takes it in the end:
\* the driver goroutines, and the caller inside SetMaxRunner.
LiveReturn(n) == \E e \in {NoError, ErrExit} : DownloadReturn(n, e)

NextLive ==
  \/ ClientEnqueueFresh
  \/ ClientSetMaxRunner
  \/ SetMaxRunnerTryRun
  \/ \E n \in Runs : Driver(n)
  \/ \E n \in Runs : LiveReturn(n)

Fairness ==
  /\ \A n \in Runs : WF_vars(Driver(n))
  /\ \A n \in Runs : WF_vars(LiveReturn(n))
  /\ WF_vars(SetMaxRunnerTryRun)

SpecLive == InitUnix /\ [][NextLive]_vars /\ Fairness

\* the task of the n-th Enqueue call waits in the pending queue
Pending(n) == \E i \in 1..Len(queue) : queue[i].n = n

\* it is in the active set, with a driver of its own
Admitted(n) == drv[n].ID \in DOMAIN active /\ active[drv[n].ID] = n /\ drv[n].pc # "idle"

\* C35: with MaxRunner at least 1, every Download returning and finitely many
\* Enqueue calls, every task placed in the pending queue is eventually
\* admitted to the active set and eventually fires a terminal callback.
C35_PendingDrains ==
  \A n \in Runs :
    /\ Pending(n) ~> Admitted(n)
    /\ Pending(n) ~> (Terminals(trace[n]) # <<>>)

\* a task that waited in the pending queue has fired its terminal callback
C35_Witness ==
  \E n \in Runs :
    /\ drv[n].pc = "tryRun"
    /\ drv[n].qlen > 0
    /\ Terminals(trace[n]) # <<>>

\* SetMaxRunner with caps up to MaxRestCap, so that a call can open two slots
RestSetMaxRunner == \E n \in 1..MaxRestCap : SetMaxRunnerAssign(n)

NextRest ==
  \/ ClientEnqueueFresh
  \/ RestSetMaxRunner
  \/ SetMaxRunnerTryRun
  \/ \E n \in Runs : Driver(n)
  \/ \E n \in Runs : LiveReturn(n)

SpecRest == InitUnix /\ [][NextRest]_vars

\* ======== work conservation ========
\* no SetMaxRunner or Stop call is under way and no driver is between the
\* return of its Download and the end of its tryRun
AtRest ==
  /\ ~setCall
  /\ stopCall = NoStop
  /\ \A n \in Runs : drv[n].pc \notin {"remove", "status", "cb", "tryRun"}

\* C36: at rest a non-empty pending queue implies that at least MaxRunner
\* tasks are active; after SetMaxRunner raised the cap as many pending tasks
\* were admitted as there were free slots.
C36_WorkConserving ==
  (AtRest /\ Len(queue) > 0) => Len0(active) >= maxRunner

\* C37: an Enqueue call made while the pending queue is non-empty does not
\* admit its task to the active set, so that no task starts before one that
\* was already waiting when it was enqueued.
C37_NoOvertaking ==
  [][ (nEnq' = nEnq + 1 /\ Len(queue) > 0) =>
         (active' = active /\ drv'[nEnq'].pc = "idle") ]_vars

\* ======== the PTY reader and the read boundaries ========
\* the lines of a run that gets the whole output in one read
RECURSIVE OneRead(_)
OneRead(data) ==
  LET r == SplitPTY(data, TRUE)
  IN  IF ~r.has THEN <<>>
      ELSE (IF r.token # <<>> THEN <<r.token>> ELSE <<>>)
             \o OneRead(SubSeq(data, r.advance + 1, Len(data)))

\* what follows the last line end of the output
RECURSIVE LastSegment(_)
LastSegment(data) ==
  IF data = <<>> \/ data[Len(data)] \in {CR, LF} THEN <<>>
  ELSE Append(LastSegment(SubSeq(data, 1, Len(data) - 1)), data[Len(data)])

ChanCap == 10
Chans == 1..MaxChans
HubKinds == {"Hub", "SSEHub"}

NewHub ==
  [clients |-> {}, made |-> {}, closed |-> {}, len |-> [c \in Chans |-> 0],
   rlock |-> FALSE, todo |-> {}, panic |-> ""]

Hub == call.out

HubStep(h) == call' = [call EXCEPT !.out = h] /\ UNCHANGED callOthers

\* sse.New / NewSSEHub
HubNew(kind) ==
  /\ call.fn = ""
  /\ call' = [fn |-> kind, in |-> <<>>, out |-> NewHub]
  /\ UNCHANGED callOthers

HubUp == call.fn \in HubKinds /\ Hub.panic = ""

\* Subscribe, or make(chan, 10) and Register: a new channel, under h.mu.Lock
Subscribe(c) ==
  /\ HubUp /\ ~Hub.rlock
  /\ c \notin Hub.made
  /\ \A d \in Chans : d < c => d \in Hub.made
  /\ HubStep([Hub EXCEPT !.made = @ \cup {c}, !.clients = @ \cup {c}])

\* close(ch)
Close(h, c) ==
  IF c \in h.closed THEN [h EXCEPT !.panic = "close of closed channel"]
  ELSE [h EXCEPT !.closed = @ \cup {c}]

\* Hub.Unsubscribe: delete and close only if the channel is a key of the map;
\* SSEHub.Unregister: delete and close whatever the map holds
Unsubscribe(kind, h, c) ==
  IF kind = "Hub"
  THEN IF c \in h.clients THEN Close([h EXCEPT !.clients = @ \ {c}], c) ELSE h
  ELSE Close([h EXCEPT !.clients = @ \ {c}], c)

\* a caller unsubscribes a channel it got, under h.mu.Lock
HubUnsubscribe(c) ==
  /\ HubUp /\ ~Hub.rlock
  /\ c \in Hub.made
  /\ HubStep(Unsubscribe(call.fn, Hub, c))

\* Broadcast: h.mu.RLock(), the range loop starts
BroadcastLock ==
  /\ HubUp /\ ~Hub.rlock
  /\ HubStep([Hub EXCEPT !.rlock = TRUE, !.todo = Hub.clients])

\* select { case ch <- evt: default: }
Send(h, c) ==
  IF c \in h.closed THEN [h EXCEPT !.panic = "send on closed channel"]
  ELSE IF h.len[c] < ChanCap THEN [h EXCEPT !.len[c] = @ + 1]
  ELSE h

BroadcastSend(c) ==
  /\ HubUp /\ Hub.rlock
  /\ c \in Hub.todo
  /\ HubStep([Send(Hub, c) EXCEPT !.todo = @ \ {c}])

\* the loop is over: h.mu.RUnlock()
BroadcastUnlock ==
  /\ HubUp /\ Hub.rlock
  /\ Hub.todo = {}
  /\ HubStep([Hub EXCEPT !.rlock = FALSE])

\* the handler of the connection takes an event from its channel
Receive(c) ==
  /\ HubUp
  /\ c \in Hub.made \ Hub.closed
  /\ Hub.len[c] > 0
  /\ HubStep([Hub EXCEPT !.len[c] = @ - 1])

NextHub ==
  \/ \E kind \in HubKinds : HubNew(kind)
  \/ \E c \in Chans : Subscribe(c)
  \/ \E c \in Chans : HubUnsubscribe(c)
  \/ BroadcastLock
  \/ \E c \in Chans : BroadcastSend(c)
  \/ BroadcastUnlock
  \/ \E c \in Chans : Receive(c)

SpecHub == InitThrottle /\ [][NextHub]_vars

\* C39: under any interleaving of Subscribe, Unsubscribe and Broadcast, no
\* Broadcast sends on a closed channel, none blocks on a full buffer (the
\* event is dropped for that subscriber only), and a second Unsubscribe of a
\* channel does not close it again.
C39_HubSafe ==
  [][ call.fn \in HubKinds =>
        /\ Hub'.panic = ""
        /\ \A c \in Chans : Hub'.len[c] <= ChanCap
        /\ \A c \in Chans :
             (Hub.rlock /\ c \in Hub.todo /\ c \notin Hub'.todo) =>
                /\ c \notin Hub.closed
                /\ Hub'.len[c] = IF Hub.len[c] < ChanCap THEN Hub.len[c] + 1 ELSE ChanCap
                /\ \A d \in Chans \ {c} : Hub'.len[d] = Hub.len[d] ]_vars
====
